---- MODULE Spec2Model ----
(***************************************************************************)
(* A model of asmodeus: the typed JSON document model (json.py, types.py)  *)
(* and the hook dispatch and deferred-job protocol (hook.py).              *)
(*                                                                         *)
(* Python values are records [cls |-> <class name>, v |-> <payload>].      *)
(* A JSONableDict (Task, Annotation) payload is a function from the keys   *)
(* present to values; a list payload is a sequence of values.              *)
(***************************************************************************)
EXTENDS Integers, Sequences, FiniteSets, TLC

VARIABLES
    \* ---- the Task under test (types.py), its last operation's outcome
    self,            \* the Task instance: a function from present keys to values
    exc,             \* exception raised by the last operation, "none" if it returned
    ret,             \* the value the last duplicate or read of an identifier returned
    new,             \* the task duplicate returned, NoneV before
    shared,          \* the keys under which self and new hold the same object
    generate_uuid,   \* the class attribute Task.generate_uuid
    generated,       \* history: the identifiers generated for the instance self
    \* ---- one hook process (hook.py on_add / on_modify / _do_final_jobs)
    mode,            \* "add" (on_add) or "modify" (on_modify)
    nhooks,          \* length of the hooks sequence
    idx,             \* number of hooks invoked so far
    task,            \* the loop variable task / modified_task (NoneV after a failure)
    orig_task,       \* on_modify's orig_task
    args,            \* history: the document each hook so far was called with
    results,         \* history: the result each hook so far returned
    feedback_messages,
    final_jobs,      \* queued deferred actions, each named by the index of its hook
    pc,              \* the original process: "loop", "final" (output printed),
                     \* "forked", "exited", "reaped" (waited for by the tracker)
    rc,              \* the original process's exit status, -1 while it runs
    buf,             \* the original process's unflushed stdout buffer
    out,             \* the lines written to the stdout pipe the tracker reads
    imported,        \* task imports the tracker has received (tw.to_taskwarrior)
    cpc,             \* the forked child: "none","close","getppid","check","sleep",
                     \* "jobs","exited"
    cstdout,         \* whether the child still holds stdout open
    parent_pid,      \* what os.getppid() returned in the child: "original" or
                     \* "reaper", "none" before the call
    interval,        \* wait_for_pid's sleep interval, in milliseconds
    ran,             \* the deferred actions invoked so far, in order
    crc              \* the child's exit status, -1 while it runs

taskVars == <<self, exc, ret, new, shared, generate_uuid, generated>>
procVars == <<mode, nhooks, idx, task, orig_task, args, results,
              feedback_messages, final_jobs, pc, rc, buf, out, imported>>
childVars == <<cpc, cstdout, parent_pid, interval, ran, crc>>
vars == <<self, exc, ret, new, shared, generate_uuid, generated, mode, nhooks, idx, task, orig_task, args, results,
          feedback_messages, final_jobs, pc, rc, buf, out, imported,
          cpc, cstdout, parent_pid, interval, ran, crc>>

----------------------------------------------------------------------------
(* Bounds of the model *)

\* longest list a Task field holds in the model
MaxLen == 2
\* longest hook chain
MaxHooks == 3
\* longest list a field of a task and of its duplicate holds
DupMaxLen == 1

----------------------------------------------------------------------------
(* Python values *)

Py(c, x) == [cls |-> c, v |-> x]
NoneV == Py("NoneType", "None")
PStr(s) == Py("str", s)
PInt(n) == Py("int", n)
PList(l) == Py("list", l)

\* the canonical text of two identifiers, and a text that is no identifier
U1 == "11111111-1111-4111-8111-111111111111"
U2 == "22222222-2222-4222-8222-222222222222"
ValidUUIDText == {U1, U2}

\* the result of a call: the value returned, or the exception raised
Ok(x) == [ok |-> TRUE, val |-> x]
Raise(e) == [ok |-> FALSE, val |-> Py("Exception", e)]

\* the classes each class derives from (itself included)
Bases(c) ==
    CASE c = "JSONableString" -> {"JSONableString", "str", "JSONable"}
      [] c = "JSONableInt" -> {"JSONableInt", "int", "JSONable"}
      [] c = "JSONableUUID" -> {"JSONableUUID", "UUID", "JSONable"}
      [] c = "JSONableUUIDPlaceholder" ->
            {"JSONableUUIDPlaceholder", "JSONableUUID", "UUID", "JSONable"}
      [] c = "JSONableStringList" -> {"JSONableStringList", "list", "JSONable"}
      [] c = "JSONableUUIDList" -> {"JSONableUUIDList", "list", "JSONable"}
      [] c = "AnnotationList" -> {"AnnotationList", "list", "JSONable"}
      [] c = "Annotation" -> {"Annotation", "dict", "JSONable"}
      [] c = "Task" -> {"Task", "dict", "JSONable"}
      [] c = "JSONableAny" -> {"JSONableAny", "JSONable"}
      [] c = "JSONableDate" -> {"JSONableDate", "datetime", "JSONable"}
      [] c = "JSONableFloat" -> {"JSONableFloat", "float", "JSONable"}
      [] c = "JSONableNumber" -> {"JSONableNumber", "float", "JSONable"}
      [] c = "JSONableDuration" -> {"JSONableDuration", "timedelta", "JSONable"}
      [] OTHER -> {c}

IsInstance(x, c) == c \in Bases(x.cls)

RECURSIVE JoinStr(_, _)
\* sep.join(parts)
JoinStr(sep, parts) ==
    IF parts = <<>> THEN ""
    ELSE IF Len(parts) = 1 THEN parts[1]
    ELSE parts[1] \o sep \o JoinStr(sep, Tail(parts))

RECURSIVE PyRepr(_)
\* repr(x), for the values of the model
PyRepr(x) ==
    IF IsInstance(x, "str") THEN "'" \o x.v \o "'"
    ELSE IF IsInstance(x, "int") THEN ToString(x.v)
    ELSE IF IsInstance(x, "UUID") THEN x.cls \o "('" \o x.v \o "')"
    ELSE IF IsInstance(x, "list")
        THEN "[" \o JoinStr(", ", [i \in 1..Len(x.v) |-> PyRepr(x.v[i])]) \o "]"
    ELSE IF x = NoneV THEN "None"
    ELSE "<" \o x.cls \o ">"

\* str(x)
PyStr(x) ==
    IF IsInstance(x, "str") THEN x.v
    ELSE IF IsInstance(x, "UUID") THEN x.v
    ELSE PyRepr(x)

\* the decimal strings int() parses in the model
IntText == [s \in {"0", "1", "5", "9"} |->
               CASE s = "0" -> 0 [] s = "1" -> 1 [] s = "5" -> 5 [] s = "9" -> 9]

\* the characters of an identifier text whose hex digits are all c
UUIDChars(c) ==
    [i \in 1..36 |-> IF i \in {9, 14, 19, 24} THEN PStr("-")
                     ELSE IF i = 15 THEN PStr("4")
                     ELSE IF i = 20 THEN PStr("8")
                     ELSE PStr(c)]

\* the characters of the strings the model iterates over
Chars(s) ==
    CASE s = "" -> <<>>
      [] s \in {"a", "b", "5", "1", "9", "x"} -> <<PStr(s)>>
      [] s = "inbox" -> <<PStr("i"), PStr("n"), PStr("b"), PStr("o"), PStr("x")>>
      [] s = U1 -> UUIDChars("1")
      [] s = U2 -> UUIDChars("2")

\* iter(x): the elements iterating x yields, or a TypeError
PyIter(x) ==
    IF IsInstance(x, "list") THEN Ok(x.v)
    ELSE IF IsInstance(x, "str") THEN Ok(Chars(x.v))
    ELSE Raise("TypeError")

----------------------------------------------------------------------------
(* Typed value wrappers (json.py) *)

\* JSONableString(x): str.__new__(cls, x), which converts any object
JSONableString(x) == Ok(Py("JSONableString", PyStr(x)))

\* JSONableInt(x): int.__new__(cls, x)
JSONableInt(x) ==
    IF IsInstance(x, "int") THEN Ok(Py("JSONableInt", x.v))
    ELSE IF IsInstance(x, "str")
        THEN IF x.v \in DOMAIN IntText THEN Ok(Py("JSONableInt", IntText[x.v]))
             ELSE Raise("ValueError")
    ELSE Raise("TypeError")

\* JSONableUUID(x): another UUID is copied, anything else goes to uuid.UUID(x)
JSONableUUID(x) ==
    IF IsInstance(x, "UUID") THEN Ok(Py("JSONableUUID", x.v))
    ELSE IF IsInstance(x, "str")
        THEN IF x.v \in ValidUUIDText THEN Ok(Py("JSONableUUID", x.v))
             ELSE Raise("ValueError")
    ELSE IF x = NoneV THEN Raise("TypeError")
    ELSE Raise("AttributeError")

\* the timestamps the tracker writes, and the instant each one names as
\* strftime('%Y-%m-%dT%H:%M:%SZ') prints it
DateText == [s \in {"20240101T000000Z", "20240102T000000Z"} |->
                CASE s = "20240101T000000Z" -> "2024-01-01T00:00:00Z"
                  [] s = "20240102T000000Z" -> "2024-01-02T00:00:00Z"]

\* JSONableDate(x): a datetime is copied and a timestamp parsed; any other
\* text goes to the tracker's calculator, which the model has refuse it
JSONableDate(x) ==
    IF IsInstance(x, "datetime") THEN Ok(Py("JSONableDate", x.v))
    ELSE IF IsInstance(x, "str")
        THEN IF x.v \in DOMAIN DateText THEN Ok(Py("JSONableDate", DateText[x.v]))
             ELSE Raise("CalledProcessError")
    ELSE Raise("ValueError")

\* JSONableFloat(x): float.__new__(cls, x); a float is held in tenths
JSONableFloat(x) ==
    IF IsInstance(x, "float") THEN Ok(Py("JSONableFloat", x.v))
    ELSE IF IsInstance(x, "int") THEN Ok(Py("JSONableFloat", 10 * x.v))
    ELSE IF IsInstance(x, "str")
        THEN IF x.v \in DOMAIN IntText THEN Ok(Py("JSONableFloat", 10 * IntText[x.v]))
             ELSE Raise("ValueError")
    ELSE Raise("TypeError")

\* a JSONableNumber: the float held (in tenths) and the attribute _int
Number(f, int) == Py("JSONableNumber", [f |-> f, _int |-> int])

\* JSONableNumber(x): float.__new__(cls, x), then __init__ keeps an int
\* argument in _int
JSONableNumber(x) ==
    IF IsInstance(x, "int") THEN Ok(Number(10 * x.v, PInt(x.v)))
    ELSE IF IsInstance(x, "float") THEN Ok(Number(x.v, NoneV))
    ELSE IF IsInstance(x, "str")
        THEN IF x.v \in DOMAIN IntText THEN Ok(Number(10 * IntText[x.v], NoneV))
             ELSE Raise("ValueError")
    ELSE Raise("TypeError")

\* JSONableNumber._json_pre_dump(): the int kept, else the float itself
NumberPreDump(x) == IF x.v._int # NoneV THEN x.v._int ELSE Py("float", x.v.f)

\* JSONableAny(x): the dataclass wraps any value
JSONableAny(x) == Ok(Py("JSONableAny", x))

\* SEMAPHORE, get_typed's marker for "no default given"
SEMAPHORE == Py("Semaphore", "SEMAPHORE")

\* the empty JSONableDict payload
EmptyDict == [k \in {} |-> NoneV]

\* d with key bound to x (dict.__setitem__)
DictPut(d, key, x) == (key :> x) @@ d

\* d without key (dict.__delitem__ of a present key)
DictDrop(d, key) == [k \in DOMAIN d \ {key} |-> d[k]]

\* Annotation._key_map: description is the one key the model gives annotations
\* (entry, a JSONableDate, is left out); Annotation has no _fallback
AnnotationKeys == {"description"}

\* Annotation(x): a lone string is the description; a mapping is coerced key by key
Annotation(x) ==
    IF IsInstance(x, "str")
        THEN Ok(Py("Annotation", ("description" :> JSONableString(x).val)))
    ELSE IF IsInstance(x, "dict")
        THEN IF DOMAIN x.v \subseteq AnnotationKeys
             THEN Ok(Py("Annotation",
                        [k \in DOMAIN x.v |->
                            IF IsInstance(x.v[k], "JSONableString") THEN x.v[k]
                            ELSE JSONableString(x.v[k]).val]))
             ELSE Raise("KeyError")
    ELSE IF IsInstance(x, "list")
        THEN IF x.v = <<>> THEN Ok(Py("Annotation", EmptyDict))
             ELSE Raise("ValueError")
    ELSE Raise("TypeError")

\* JSONableList._class of each list class
ElemClass(lc) ==
    CASE lc = "JSONableStringList" -> "JSONableString"
      [] lc = "JSONableUUIDList" -> "JSONableUUID"
      [] lc = "AnnotationList" -> "Annotation"

\* cls(x) for an element class
ConstructElem(c, x) ==
    CASE c = "JSONableString" -> JSONableString(x)
      [] c = "JSONableUUID" -> JSONableUUID(x)
      [] c = "Annotation" -> Annotation(x)

ListParseSkipped(lc, x) == Ok(x)

\* JSONableList._parse_if_needed
ListParseIfNeeded(lc, x) ==
    IF IsInstance(x, ElemClass(lc)) THEN Ok(x)
    ELSE ConstructElem(ElemClass(lc), x)

RECURSIVE ListMapParseFrom(_, _, _)
RECURSIVE ListMapParseNext(_, _, _, _)
\* consuming map(self._parse_if_needed, xs): the elements converted before the
\* first failure (after acc), and that failure
ListMapParseFrom(lc, xs, acc) ==
    IF xs = <<>> THEN [ok |-> TRUE, done |-> acc, err |-> "none"]
    ELSE ListMapParseNext(lc, xs, acc, ListParseIfNeeded(lc, Head(xs)))

\* r is the conversion of the head of xs
ListMapParseNext(lc, xs, acc, r) ==
    IF r.ok THEN ListMapParseFrom(lc, Tail(xs), Append(acc, r.val))
    ELSE [ok |-> FALSE, done |-> acc, err |-> r.val.v]

ListMapParse(lc, xs) == ListMapParseFrom(lc, xs, <<>>)

\* m is the conversion of the elements
JSONableListOf(lc, m) == IF m.ok THEN Ok(Py(lc, m.done)) ELSE Raise(m.err)

\* i is iter(it)
JSONableListOver(lc, i) ==
    IF ~i.ok THEN i ELSE JSONableListOf(lc, ListMapParse(lc, i.val))

\* JSONableList.__init__(it) of list class lc
JSONableList(lc, it) ==
    IF it = NoneV THEN Ok(Py(lc, <<>>)) ELSE JSONableListOver(lc, PyIter(it))

\* the outcome of a list method: the list afterwards and the exception raised
LR(l, e) == [list |-> l, exc |-> e]

\* r is the conversion of the appended value
ListAppendParsed(l, r) ==
    IF r.ok THEN LR(Py(l.cls, Append(l.v, r.val)), "none") ELSE LR(l, r.val.v)

\* JSONableList.append
ListAppend(l, x) == ListAppendParsed(l, ListParseIfNeeded(l.cls, x))

\* m is the conversion of the elements
ListExtendWith(l, m) == LR(Py(l.cls, l.v \o m.done), m.err)

\* i is iter(xs)
ListExtendOver(l, i) ==
    IF ~i.ok THEN LR(l, i.val.v) ELSE ListExtendWith(l, ListMapParse(l.cls, i.val))

\* JSONableList.extend: list.extend keeps what the iterator gave before raising
ListExtend(l, xs) == ListExtendOver(l, PyIter(xs))

\* r is the conversion of the assigned value
ListSetIndexParsed(l, i, r) ==
    IF ~r.ok THEN LR(l, r.val.v)
    ELSE IF i \notin 1..Len(l.v) THEN LR(l, "IndexError")
    ELSE LR(Py(l.cls, [l.v EXCEPT ![i] = r.val]), "none")

\* JSONableList.__setitem__ with an index (1-based here)
ListSetIndex(l, i, x) == ListSetIndexParsed(l, i, ListParseIfNeeded(l.cls, x))

\* whether x == y in Python, for the values lists hold
PyEq(x, y) ==
    \/ x = y
    \/ IsInstance(x, "str") /\ IsInstance(y, "str") /\ x.v = y.v
    \/ IsInstance(x, "UUID") /\ IsInstance(y, "UUID") /\ x.v = y.v

\* seq without its element at index i
PlainRemoveAt(seq, i) ==
    [seq |-> SubSeq(seq, 1, i - 1) \o SubSeq(seq, i + 1, Len(seq)), exc |-> "none"]

\* list.remove(x) on a plain list payload
PlainRemove(seq, x) ==
    IF \E j \in 1..Len(seq) : PyEq(seq[j], x)
    THEN PlainRemoveAt(seq, CHOOSE j \in 1..Len(seq) :
                                PyEq(seq[j], x) /\ \A k \in 1..(j - 1) : ~PyEq(seq[k], x))
    ELSE [seq |-> seq, exc |-> "ValueError"]

\* p is the outcome of list.remove
ListRemoved(l, p) == LR(Py(l.cls, p.seq), p.exc)

\* r is the conversion of the value to remove
ListRemoveParsed(l, r) ==
    IF ~r.ok THEN LR(l, r.val.v) ELSE ListRemoved(l, PlainRemove(l.v, r.val))

\* JSONableList.remove
ListRemove(l, x) == ListRemoveParsed(l, ListParseIfNeeded(l.cls, x))

----------------------------------------------------------------------------
(* Task, a JSONableDict (json.py, types.py) *)

\* the keys of Task._key_map whose wrapper is JSONableString
StringKeys == {"description", "mask", "priority", "project", "recur",
               "recurAfterModifications", "recurAfterWaitRoundDown",
               "recurAfterDueRoundDown", "rtype", "problems", "status", "source",
               "blocks"}

\* the keys of Task._key_map whose wrapper is JSONableDate
DateKeys == {"due", "end", "entry", "modified", "reviewed", "scheduled", "start",
             "until", "wait"}

\* the keys of Task._key_map whose wrapper is JSONableNumber
NumberKeys == {"imask", "last"}

\* the keys of Task._key_map whose wrappers the model leaves out (durations)
UnmodelledKeys == {"dueRandomDelay",
                   "recurAfterDue", "recurAfterDueRandomDelay",
                   "recurAfterWait", "recurAfterWaitRandomDelay",
                   "recurTaskUntil", "waitRandomDelay"}

\* Task._key_map and Task._fallback: <<type, constructor>> for a key
\* (JSONableDict._get_class_fn)
GetClassFn(key) ==
    CASE key \in StringKeys -> <<"JSONableString", "JSONableString">>
      [] key = "id" -> <<"JSONableInt", "JSONableInt">>
      [] key \in DateKeys -> <<"JSONableDate", "JSONableDate">>
      [] key = "urgency" -> <<"JSONableFloat", "JSONableFloat">>
      [] key \in NumberKeys -> <<"JSONableNumber", "JSONableNumber">>
      [] key \in {"uuid", "parent", "template"} -> <<"JSONableUUID", "uuid_init">>
      [] key = "tags" -> <<"JSONableStringList", "JSONableStringList">>
      [] key = "depends" -> <<"JSONableUUIDList", "uuid_list_init">>
      [] key = "annotations" -> <<"AnnotationList", "AnnotationList">>
      [] key \notin UnmodelledKeys -> <<"JSONableAny", "JSONableAny">>

\* JSONableDict._get_class_type
GetClassType(key) == GetClassFn(key)[1]

\* JSONableDict.get_typed(key, kind, default) on payload d
GetTyped(d, key, kind, default) ==
    IF key \notin DOMAIN d
        THEN IF default = SEMAPHORE THEN Raise("KeyError") ELSE Ok(default)
    ELSE IF IsInstance(d[key], kind) THEN Ok(d[key])
    ELSE Raise("AssertionError")

\* uuid_init(x)
uuid_init(x) ==
    IF IsInstance(x, "Task") THEN GetTyped(x.v, "uuid", "JSONableUUID", SEMAPHORE)
    ELSE IF IsInstance(x, "JSONableUUID") THEN Ok(x)
    ELSE JSONableUUID(x)

RECURSIVE MapUuidInit(_, _)
RECURSIVE MapUuidInitNext(_, _, _)
\* consuming map(uuid_init, xs)
MapUuidInit(xs, acc) ==
    IF xs = <<>> THEN Ok(acc) ELSE MapUuidInitNext(xs, acc, uuid_init(Head(xs)))

\* r is uuid_init of the head of xs
MapUuidInitNext(xs, acc, r) ==
    IF r.ok THEN MapUuidInit(Tail(xs), Append(acc, r.val)) ELSE r

\* m is the identifiers map(uuid_init, x) gave
UuidListOf(m) ==
    IF m.ok THEN JSONableList("JSONableUUIDList", PList(m.val)) ELSE m

\* i is iter(x)
UuidListOver(i) ==
    IF ~i.ok THEN Raise("AssertionError") ELSE UuidListOf(MapUuidInit(i.val, <<>>))

\* uuid_list_init(x)
uuid_list_init(x) ==
    IF IsInstance(x, "JSONableUUIDList") THEN Ok(x) ELSE UuidListOver(PyIter(x))

\* fn(x) for a constructor of GetClassFn
Construct(fn, x) ==
    CASE fn = "JSONableString" -> JSONableString(x)
      [] fn = "JSONableInt" -> JSONableInt(x)
      [] fn = "JSONableDate" -> JSONableDate(x)
      [] fn = "JSONableFloat" -> JSONableFloat(x)
      [] fn = "JSONableNumber" -> JSONableNumber(x)
      [] fn = "uuid_init" -> uuid_init(x)
      [] fn = "uuid_list_init" -> uuid_list_init(x)
      [] fn = "JSONableStringList" -> JSONableList("JSONableStringList", x)
      [] fn = "AnnotationList" -> JSONableList("AnnotationList", x)
      [] fn = "JSONableAny" -> JSONableAny(x)

\* cf is the type and the constructor of the key
ParseWith(cf, x) == IF IsInstance(x, cf[1]) THEN Ok(x) ELSE Construct(cf[2], x)

DictParseSkipped(key, x) == Ok(x)

\* JSONableDict._parse_if_needed(key, x)
ParseIfNeeded(key, x) == ParseWith(GetClassFn(key), x)

\* the outcome of a Task method: the task afterwards and the exception raised
TR(t, e) == [task |-> t, exc |-> e]

\* r is the conversion of the value
DictSetParsed(d, key, r) ==
    IF r.ok THEN TR(DictPut(d, key, r.val), "none") ELSE TR(d, r.val.v)

\* JSONableDict.__setitem__
DictSetItem(d, key, x) == DictSetParsed(d, key, ParseIfNeeded(key, x))

TaskSetItemMutable(d, key, x) == DictSetItem(d, key, x)

\* Task.__setitem__
TaskSetItem(d, key, x) ==
    IF key = "uuid" /\ "uuid" \in DOMAIN d THEN TR(d, "RuntimeError")
    ELSE DictSetItem(d, key, x)

\* del task[key]
TaskDelItem(d, key) ==
    IF key \in DOMAIN d THEN TR(DictDrop(d, key), "none") ELSE TR(d, "KeyError")

RECURSIVE InitItems(_, _, _)
RECURSIVE InitItemsNext(_, _, _, _)
\* the generator JSONableDict.__init__ hands dict.__init__: the keys of the
\* mapping coerced in turn, until one fails
InitItems(m, keys, acc) ==
    IF keys = <<>> THEN TR(acc, "none")
    ELSE InitItemsNext(m, keys, acc, ParseIfNeeded(Head(keys), m[Head(keys)]))

\* r is the conversion of the value of the first key
InitItemsNext(m, keys, acc, r) ==
    IF r.ok THEN InitItems(m, Tail(keys), DictPut(acc, Head(keys), r.val))
    ELSE TR(acc, r.val.v)

RECURSIVE KeySeq(_)
RECURSIVE KeySeqFrom(_, _)
\* the keys of a mapping in some order
KeySeq(K) == IF K = {} THEN <<>> ELSE KeySeqFrom(K, CHOOSE x \in K : TRUE)

\* k is the first key
KeySeqFrom(K, k) == <<k>> \o KeySeq(K \ {k})

\* Task(m) for a mapping m: Task.__init__, with generate_uuid False (its default)
TaskInit(m) == InitItems(m, KeySeq(DOMAIN m), EmptyDict)

\* a lone value of class kind stands for the list holding it
AsList(x, kind) == IF IsInstance(x, kind) THEN PList(<<x>>) ELSE x

\* r is the outcome of extending the list stored under key
FieldExtended(d, key, r) == TR(DictPut(d, key, r.list), r.exc)

\* g is the stored tags list, or the exception looking it up raised
TagWith(d, ts, g) ==
    IF g.ok THEN FieldExtended(d, "tags", ListExtend(g.val, ts))
    ELSE IF g.val.v = "KeyError" THEN TaskSetItem(d, "tags", ts)
    ELSE TR(d, g.val.v)

\* Task.tag(tags)
Tag(d, tags) ==
    TagWith(d, AsList(tags, "str"),
            GetTyped(d, "tags", "JSONableStringList", SEMAPHORE))

RECURSIVE UntagLoop(_, _, _, _)
RECURSIVE UntagNext(_, _, _, _)
RECURSIVE UntagStep(_, _, _, _)
\* the loop of Task.untag over the tags to remove: cur is the list the loop
\* removes from, stored tells whether that list is the task's own field
UntagLoop(d, cur, stored, ts) ==
    IF ts = <<>> THEN TR(d, "none")
    ELSE UntagStep(d, stored, ts,
                   IF stored THEN ListRemove(cur, Head(ts))
                   ELSE ListRemoved(cur, PlainRemove(cur.v, Head(ts))))

\* r is the outcome of removing the first tag
UntagStep(d, stored, ts, r) ==
    UntagNext(IF stored THEN DictPut(d, "tags", r.list) ELSE d, stored, ts, r)

\* the loop with list.remove's ValueError left as it is
UntagNextUntranslated(nd, stored, ts, r) ==
    IF r.exc = "none" THEN UntagLoop(nd, r.list, stored, Tail(ts))
    ELSE TR(nd, r.exc)

\* nd is the task after the removal
UntagNext(nd, stored, ts, r) ==
    IF r.exc = "none" THEN UntagLoop(nd, r.list, stored, Tail(ts))
    ELSE IF r.exc = "ValueError" THEN TR(nd, "NoSuchTagError")
    ELSE TR(nd, r.exc)

\* g is the stored tags list or the default, i is iter(tags)
UntagWith(d, g, i) ==
    IF ~g.ok THEN TR(d, g.val.v)
    ELSE IF ~i.ok THEN TR(d, i.val.v)
    ELSE UntagLoop(d, g.val, "tags" \in DOMAIN d, i.val)

\* Task.untag(tags)
Untag(d, tags) ==
    UntagWith(d, GetTyped(d, "tags", "JSONableStringList", PList(<<>>)),
              PyIter(AsList(tags, "str")))

\* g is the stored depends list, or the exception looking it up raised
AddDependencyWith(d, us, g) ==
    IF g.ok THEN FieldExtended(d, "depends", ListExtend(g.val, us))
    ELSE IF g.val.v = "KeyError" THEN TaskSetItem(d, "depends", us)
    ELSE TR(d, g.val.v)

\* Task.add_dependency(uuids)
AddDependency(d, uuids) ==
    AddDependencyWith(d, AsList(uuids, "UUID"),
                      GetTyped(d, "depends", "JSONableUUIDList", SEMAPHORE))

\* the Annotation add_annotation makes of a string
AsAnnotation(annotation) ==
    IF IsInstance(annotation, "str")
    THEN Annotation(Py("dict", ("description" :> annotation))).val
    ELSE annotation

\* g is the stored annotations list or the exception looking it up raised,
\* r the outcome of appending to that list
AddAnnotationTo(d, a, g, r) ==
    IF g.ok /\ r.exc # "KeyError" THEN TR(DictPut(d, "annotations", r.list), r.exc)
    ELSE IF g.ok \/ g.val.v = "KeyError"
        THEN TaskSetItem(d, "annotations", PList(<<a>>))
    ELSE TR(d, g.val.v)

AddAnnotationWith(d, a, g) == AddAnnotationTo(d, a, g, ListAppend(g.val, a))

\* Task.add_annotation(annotation), dt None
AddAnnotation(d, annotation) ==
    AddAnnotationWith(d, AsAnnotation(annotation),
                      GetTyped(d, "annotations", "AnnotationList", SEMAPHORE))

\* e is the empty list stored when the field is absent
GetTagsCreated(d, e) == [task |-> DictPut(d, "tags", e), exc |-> "none", ret |-> e]

\* g is the stored tags list, None, or the exception looking it up raised
GetTagsWith(d, g) ==
    IF ~g.ok THEN [task |-> d, exc |-> g.val.v, ret |-> NoneV]
    ELSE IF g.val = NoneV
        THEN GetTagsCreated(d, JSONableList("JSONableStringList", NoneV).val)
    ELSE [task |-> d, exc |-> "none", ret |-> g.val]

\* Task.get_tags(): the task afterwards (the field is created when absent)
\* and the list returned
GetTags(d) == GetTagsWith(d, GetTyped(d, "tags", "JSONableStringList", NoneV))

\* g is the outcome of get_tags
HasTagIn(g, tag) ==
    [task |-> g.task, exc |-> g.exc,
     ret |-> g.exc = "none" /\ \E i \in 1..Len(g.ret.v) : PyEq(g.ret.v[i], tag)]

\* Task.has_tag(tag)
HasTag(d, tag) == HasTagIn(GetTags(d), tag)

\* JSONableUUIDPlaceholder(factory): an identifier that is not there yet
JSONableUUIDPlaceholder(factory) ==
    Py("JSONableUUIDPlaceholder", [factory |-> factory, int |-> "unset"])

\* Task._maybe_populate_uuid, gen being the class attribute generate_uuid
MaybePopulateUuid(d, gen) ==
    IF "uuid" \notin DOMAIN d /\ gen
    THEN TaskSetItem(d, "uuid", JSONableUUIDPlaceholder("_gen_uuid")).task
    ELSE d

\* r is the outcome of JSONableDict.__init__
TaskInitWith(r, gen) ==
    IF r.exc = "none" THEN TR(MaybePopulateUuid(r.task, gen), "none") ELSE r

\* Task(m) for a mapping m: Task.__init__
TaskNew(m, gen) == TaskInitWith(TaskInit(m), gen)

\* the identifiers uuid4() returns in the model
Uuid4 == {Py("JSONableUUID", U1), Py("JSONableUUID", U2)}

PopulateAgain(p, u) ==
    Py("JSONableUUIDPlaceholder", [factory |-> "None", int |-> u.v])

\* JSONableUUIDPlaceholder._populate, u being what the factory returns when
\* it is called
Populate(p, u) ==
    IF p.v.factory = "None" THEN p
    ELSE IF u = NoneV THEN p
    ELSE Py("JSONableUUIDPlaceholder", [factory |-> "None", int |-> u.v])

\* the task after its identifier was read: a placeholder stored under 'uuid'
\* is populated
PopulatedTask(d, u) ==
    IF "uuid" \in DOMAIN d /\ d["uuid"].cls = "JSONableUUIDPlaceholder"
    THEN DictPut(d, "uuid", Populate(d["uuid"], u))
    ELSE d

\* the text of the identifier q holds
UuidText(q) == IF q.cls = "JSONableUUIDPlaceholder" THEN q.v.int ELSE q.v

\* the ways the model reads an identifier: str(q), repr(q), q == UUID(U1)
\* and q._json_pre_dump()
ReadKinds == {"str", "repr", "eq", "json"}

\* what a read of the identifier q gives once q holds an identifier
ReadUuid(q, kind) ==
    CASE kind = "str" -> PStr(UuidText(q))
      [] kind = "repr" -> PStr("JSONableUUID('" \o UuidText(q) \o "')")
      [] kind = "eq" -> Py("bool", UuidText(q) = U1)
      [] kind = "json" -> PStr(UuidText(q))

----------------------------------------------------------------------------
(* Operations on one Task: the specification TaskSpec *)

\* the keys the operations of the model write: four typed keys and a key
\* outside Task._key_map
SetKeys == {"uuid", "tags", "depends", "annotations", "foo"}

\* the keys of a Task that hold a typed list
ListKeys == {"tags", "depends", "annotations"}

\* the plain values set under each key: some its constructor converts, some
\* it refuses
SetVals(key) ==
    CASE key = "uuid" -> {PStr(U1), PStr("a"), Py("JSONableUUID", U1)}
      [] key = "tags" -> {PList(<<PStr("a")>>), NoneV, PInt(5)}
      [] key = "depends" -> {PList(<<PStr(U1)>>), NoneV}
      [] key = "annotations" -> {PList(<<PStr("a")>>), PInt(5)}
      [] key = "foo" -> {PInt(5)}

\* the values handed to the methods of the list stored under each key
ElemVals(key) ==
    CASE key = "tags" -> {PStr("a"), PInt(5)}
      [] key = "depends" -> {PStr(U1), PStr("a")}
      [] key = "annotations" -> {PStr("a"), PInt(5)}

\* the arguments of tag and untag, of add_dependency and of add_annotation
TagArgs == {PStr("a"), PStr("5"), PList(<<PStr("a"), PStr("5")>>), PList(<<>>)}
DepArgs == {Py("UUID", U1), PList(<<PStr(U1)>>), PList(<<Py("UUID", U1), PStr("a")>>)}
AnnotationArgs == {PStr("a"), Py("Annotation", ("description" :> Py("JSONableString", "a")))}

\* the mappings a Task is constructed from
RawMaps ==
    {EmptyDict, ("uuid" :> PStr(U1)), ("uuid" :> PStr("a")), ("foo" :> PStr("a")),
     ("tags" :> PList(<<PStr("a"), PInt(5)>>)),
     ("foo" :> PStr("a")) @@ ("uuid" :> PStr(U1))}

\* no list of the task is longer than the model allows
Bounded(d) ==
    \A k \in DOMAIN d : IsInstance(d[k], "list") => Len(d[k].v) <= MaxLen

\* the state of a process that has not started, for specifications about Task
IdleProc ==
    /\ mode = "add" /\ nhooks = 0 /\ idx = 0
    /\ task = NoneV /\ orig_task = NoneV /\ args = <<>> /\ results = <<>>
    /\ feedback_messages = <<>> /\ final_jobs = <<>>
    /\ pc = "idle" /\ rc = -1 /\ buf = <<>> /\ out = <<>> /\ imported = <<>>
    /\ cpc = "none" /\ cstdout = FALSE /\ parent_pid = "none" /\ interval = 0
    /\ ran = <<>> /\ crc = -1

TaskSpecInit ==
    /\ \E m \in RawMaps : TaskInit(m).exc = "none" /\ self = TaskInit(m).task
    /\ Bounded(self)
    /\ exc = "none" /\ ret = NoneV
    /\ new = NoneV /\ shared = {} /\ generate_uuid = FALSE /\ generated = <<>>
    /\ IdleProc

\* the operation's outcome becomes the state
TaskApply(r) ==
    /\ Bounded(r.task)
    /\ self' = r.task
    /\ exc' = r.exc
    /\ UNCHANGED <<ret, new, shared, generate_uuid, generated, procVars, childVars>>

\* Task(m): on success the new instance replaces the one under test
DoConstruct ==
    \E r \in {TaskInit(m) : m \in RawMaps} :
        TaskApply(IF r.exc = "none" THEN r ELSE TR(self, r.exc))

\* task[key] = x
DoSet(key, x) == TaskApply(TaskSetItem(self, key, x))

\* del task[key]
DoDelete(key) == TaskApply(TaskDelItem(self, key))

DoTag(tags) == TaskApply(Tag(self, tags))

DoUntag(tags) == TaskApply(Untag(self, tags))

DoAddDependency(uuids) == TaskApply(AddDependency(self, uuids))

DoAddAnnotation(a) == TaskApply(AddAnnotation(self, a))

\* a method of the list stored under key, whose outcome is r
ListApply(key, r) == TaskApply(TR(DictPut(self, key, r.list), r.exc))

DoListAppend(key, x) == ListApply(key, ListAppend(self[key], x))

DoListExtend(key, xs) == ListApply(key, ListExtend(self[key], xs))

DoListSetIndex(key, i, x) == ListApply(key, ListSetIndex(self[key], i, x))

DoListRemove(key, x) == ListApply(key, ListRemove(self[key], x))

DoHasTag(tag) == TaskApply(HasTag(self, tag))

TaskNext ==
    \/ DoConstruct
    \/ \E key \in SetKeys : \E x \in SetVals(key) : DoSet(key, x)
    \/ \E key \in SetKeys : DoDelete(key)
    \/ \E tags \in TagArgs : DoTag(tags)
    \/ \E tags \in TagArgs : DoUntag(tags)
    \/ \E uuids \in DepArgs : DoAddDependency(uuids)
    \/ \E a \in AnnotationArgs : DoAddAnnotation(a)
    \/ \E key \in ListKeys \cap DOMAIN self : \E x \in ElemVals(key) : DoListAppend(key, x)
    \/ \E key \in ListKeys \cap DOMAIN self : \E x \in ElemVals(key) :
           DoListExtend(key, PList(<<x>>))
    \/ \E key \in ListKeys \cap DOMAIN self, i \in 1..MaxLen :
           \E x \in ElemVals(key) : DoListSetIndex(key, i, x)
    \/ \E key \in ListKeys \cap DOMAIN self : \E x \in ElemVals(key) : DoListRemove(key, x)
    \/ \E tag \in {PStr("a")} : DoHasTag(tag)

TaskSpec == TaskSpecInit /\ [][TaskNext]_vars

----------------------------------------------------------------------------
(* Claims about Task *)

\* C9: for a Task in which the key 'uuid' is present, set('uuid', v) raises
\* for every value v (the stored identifier included) and leaves the task,
\* its stored identifier included, unchanged.
C9_SetUuidFails ==
    [][("uuid" \in DOMAIN self /\ \E x \in SetVals("uuid") \cup {self["uuid"]} : DoSet("uuid", x))
          => (exc' = "RuntimeError" /\ self' = self)]_vars

\* a task holding an identifier on which the last operation raised RuntimeError
C9_Witness == "uuid" \in DOMAIN self /\ exc = "RuntimeError"

\* the keys of Task._key_map
KeyMapKeys == StringKeys \cup DateKeys \cup NumberKeys \cup UnmodelledKeys
              \cup {"id", "urgency", "uuid", "parent", "template", "tags",
                    "depends", "annotations"}

\* C10: after any sequence of construct, set, delete, tag, untag,
\* add_dependency, add_annotation and list append/extend/index-assignment/
\* remove operations, every value stored under a key of the field-to-type map
\* is an instance of that key's declared wrapper type, every value stored
\* under any other key is a JSONableAny, and every element of a typed list is
\* an instance of the list's declared element type.
C10_TypedValues ==
    \A k \in DOMAIN self :
        /\ k \in KeyMapKeys => IsInstance(self[k], GetClassType(k))
        /\ k \notin KeyMapKeys => self[k].cls = "JSONableAny"
        /\ IsInstance(self[k], "list") =>
               \A i \in 1..Len(self[k].v) :
                   IsInstance(self[k].v[i], ElemClass(self[k].cls))

\* a task whose tags hold the string made from the integer 5, whose depends
\* hold an identifier and whose annotations hold an Annotation
C10_Witness ==
    /\ {"tags", "depends", "annotations"} \subseteq DOMAIN self
    /\ \E i \in 1..Len(self["tags"].v) : self["tags"].v[i] = Py("JSONableString", "5")
    /\ Len(self["depends"].v) > 0
    /\ Len(self["annotations"].v) > 0

----------------------------------------------------------------------------
(* Serialization and description of documents (json.py, types.py) *)

\* the order in which the keys of a document are written: for the documents
\* of the model, the order in which a task's keys were inserted (a payload
\* of the model does not record insertion order)
KeyOrder == <<"description", "id", "uuid", "status", "entry", "end", "urgency",
              "blocks", "tags", "depends", "annotations", "problems",
              "dependencies", "imask", "last", "foo">>

RECURSIVE JsonDumps(_)
RECURSIVE JsonItems(_, _)
\* the "key": value pairs of mapping d for the keys ks
JsonItems(d, ks) ==
    [i \in 1..Len(ks) |-> "\"" \o ks[i] \o "\": " \o JsonDumps(d[ks[i]])]

\* JSONable.to_json_str: json.dumps(x, default=_json_dumper).  The encoder
\* writes an instance of str, int, float, list or dict itself, a float (a
\* JSONableNumber included) as float.__repr__ gives it, and hands only the
\* other objects to _json_dumper and so to their _json_pre_dump
JsonDumps(x) ==
    IF x.cls = "JSONableUUIDPlaceholder" THEN "\"" \o x.v.int \o "\""
    ELSE IF IsInstance(x, "str") \/ IsInstance(x, "UUID") THEN "\"" \o x.v \o "\""
    ELSE IF IsInstance(x, "int") THEN ToString(x.v)
    ELSE IF IsInstance(x, "datetime") THEN "\"" \o x.v \o "\""
    ELSE IF x.cls = "JSONableNumber"
        THEN ToString(x.v.f \div 10) \o "." \o ToString(x.v.f % 10)
    ELSE IF IsInstance(x, "float")
        THEN ToString(x.v \div 10) \o "." \o ToString(x.v % 10)
    ELSE IF x.cls = "JSONableAny" THEN JsonDumps(x.v)
    ELSE IF IsInstance(x, "list")
        THEN "[" \o JoinStr(", ", [i \in 1..Len(x.v) |-> JsonDumps(x.v[i])]) \o "]"
    ELSE IF IsInstance(x, "dict")
        THEN "{" \o JoinStr(", ", JsonItems(x.v, SelectSeq(KeyOrder,
                                                           LAMBDA k : k \in DOMAIN x.v)))
                 \o "}"
    ELSE "null"

\* Task.from_json_str of the line whose JSON object is the mapping m
FromJson(m) == Py("Task", TaskInit(m).task)

\* bool(task): an empty mapping is false
Truthy(t) == DOMAIN t.v # {}

\* str(u).split('-', maxsplit=1)[0] for the identifiers of the model
ShortId(u) == CASE u = U1 -> "11111111" [] u = U2 -> "22222222"

\* ident is the task's id, 0 when it has none
DescribeWith(d, ident) ==
    IF ident.v # 0 THEN ToString(ident.v) \o " " \o PyRepr(d["description"])
    ELSE IF "uuid" \in DOMAIN d
        THEN ShortId(d["uuid"].v) \o " " \o PyRepr(d["description"])
    ELSE PyRepr(d["description"])

\* Task.describe() on payload d
Describe(d) == DescribeWith(d, GetTyped(d, "id", "int", PInt(0)).val)

----------------------------------------------------------------------------
(* Hooks (hook.py) and what a call of one yields *)

\* what a call of a hook yields: the tuple it returned and the imports it
\* sent the tracker meanwhile (tw.to_taskwarrior), or the exception it raised
Outcome(status, t, fb, fin) ==
    [rc |-> status, task |-> t, feedback |-> fb, final |-> fin,
     imports |-> <<>>, raised |-> "none"]
Raises(e) ==
    [rc |-> 0, task |-> NoneV, feedback |-> NoneV, final |-> NoneV,
     imports |-> <<>>, raised |-> e]

\* the feedback text and the deferred action of the hook at position i, for
\* the hooks whose texts and actions depend on fields outside the model
Msg(i) == "m" \o ToString(i)
Job(i) == Py("partial", i)

\* the return statements of the hooks of hook.py that work on dates and
\* recurrence, by source line: the status, and whether the tuple carries a
\* document, a feedback message and a deferred action
ReturnPathsKeepingTask ==
    {[hook |-> "random_delays", line |-> 326, rc |-> 1, doc |-> TRUE,
      feedback |-> TRUE, final |-> FALSE]}
ReturnPaths ==
    {[hook |-> "due_end_of", line |-> 174, rc |-> 0, doc |-> TRUE, feedback |-> FALSE, final |-> FALSE],
     [hook |-> "due_end_of", line |-> 179, rc |-> 0, doc |-> TRUE, feedback |-> FALSE, final |-> FALSE],
     [hook |-> "due_end_of", line |-> 183, rc |-> 0, doc |-> TRUE, feedback |-> FALSE, final |-> FALSE],
     [hook |-> "due_end_of", line |-> 185, rc |-> 0, doc |-> TRUE, feedback |-> FALSE, final |-> FALSE],
     [hook |-> "fix_recurrence_dst", line |-> 238, rc |-> 0, doc |-> TRUE, feedback |-> FALSE, final |-> FALSE],
     [hook |-> "fix_recurrence_dst", line |-> 241, rc |-> 0, doc |-> TRUE, feedback |-> FALSE, final |-> FALSE],
     [hook |-> "fix_recurrence_dst", line |-> 278, rc |-> 0, doc |-> TRUE, feedback |-> FALSE, final |-> FALSE],
     [hook |-> "random_delays", line |-> 326, rc |-> 1, doc |-> FALSE, feedback |-> TRUE, final |-> FALSE],
     [hook |-> "random_delays", line |-> 333, rc |-> 1, doc |-> FALSE, feedback |-> TRUE, final |-> FALSE],
     [hook |-> "random_delays", line |-> 336, rc |-> 0, doc |-> TRUE, feedback |-> FALSE, final |-> FALSE],
     [hook |-> "recur_after", line |-> 350, rc |-> 0, doc |-> TRUE, feedback |-> FALSE, final |-> FALSE],
     [hook |-> "recur_after", line |-> 362, rc |-> 0, doc |-> TRUE, feedback |-> FALSE, final |-> FALSE],
     [hook |-> "recur_after", line |-> 421, rc |-> 1, doc |-> FALSE, feedback |-> TRUE, final |-> FALSE],
     [hook |-> "recur_after", line |-> 446, rc |-> 0, doc |-> TRUE, feedback |-> TRUE, final |-> TRUE],
     [hook |-> "child_until", line |-> 458, rc |-> 0, doc |-> TRUE, feedback |-> FALSE, final |-> FALSE],
     [hook |-> "child_until", line |-> 464, rc |-> 0, doc |-> TRUE, feedback |-> FALSE, final |-> FALSE],
     [hook |-> "child_until", line |-> 468, rc |-> 1, doc |-> FALSE, feedback |-> TRUE, final |-> FALSE],
     [hook |-> "child_until", line |-> 488, rc |-> 0, doc |-> TRUE, feedback |-> TRUE, final |-> FALSE],
     [hook |-> "waitingfor_adds_due", line |-> 497, rc |-> 0, doc |-> TRUE, feedback |-> FALSE, final |-> FALSE],
     [hook |-> "waitingfor_adds_due", line |-> 500, rc |-> 0, doc |-> TRUE, feedback |-> FALSE, final |-> FALSE],
     [hook |-> "waitingfor_adds_due", line |-> 503, rc |-> 0, doc |-> TRUE, feedback |-> FALSE, final |-> FALSE],
     [hook |-> "waitingfor_adds_due", line |-> 507, rc |-> 0, doc |-> TRUE, feedback |-> FALSE, final |-> FALSE],
     [hook |-> "waitingfor_adds_due", line |-> 515, rc |-> 0, doc |-> TRUE, feedback |-> FALSE, final |-> FALSE],
     [hook |-> "waitingfor_adds_due", line |-> 518, rc |-> 0, doc |-> TRUE, feedback |-> TRUE, final |-> FALSE],
     [hook |-> "problem_tag", line |-> 623, rc |-> 0, doc |-> TRUE, feedback |-> FALSE, final |-> FALSE],
     [hook |-> "problem_tag", line |-> 626, rc |-> 0, doc |-> TRUE, feedback |-> FALSE, final |-> FALSE],
     [hook |-> "problem_tag", line |-> 628, rc |-> 0, doc |-> TRUE, feedback |-> TRUE, final |-> FALSE],
     [hook |-> "problem_tag", line |-> 633, rc |-> 0, doc |-> TRUE, feedback |-> TRUE, final |-> FALSE],
     [hook |-> "problem_tag", line |-> 645, rc |-> 0, doc |-> TRUE, feedback |-> TRUE, final |-> FALSE],
     [hook |-> "fix_weekday_due", line |-> 663, rc |-> 0, doc |-> TRUE, feedback |-> FALSE, final |-> FALSE],
     [hook |-> "fix_weekday_due", line |-> 669, rc |-> 0, doc |-> TRUE, feedback |-> FALSE, final |-> FALSE],
     [hook |-> "fix_weekday_due", line |-> 689, rc |-> 0, doc |-> TRUE, feedback |-> TRUE, final |-> FALSE],
     [hook |-> "fix_weekday_due", line |-> 693, rc |-> 1, doc |-> FALSE, feedback |-> TRUE, final |-> FALSE]}

\* the raise statements of those hooks, and the read of the unbound local
\* due in random_delays when only waitRandomDelay is set
RaisePaths ==
    {[hook |-> "random_delays", line |-> 332, exc |-> "UnboundLocalError"],
     [hook |-> "recur_after", line |-> 379, exc |-> "ValueError"],
     [hook |-> "recur_after", line |-> 393, exc |-> "ValueError"]}

\* the hooks of hook.py the table above describes
TableHooks == {p.hook : p \in ReturnPaths}

\* the outcomes of the table hook h called at position i with document t:
\* the document it returns is its argument, as the fields it rewrites are
\* outside the model
TableOutcomes(h, i, t) ==
    {Outcome(p.rc, IF p.doc THEN t ELSE NoneV,
             IF p.feedback THEN PStr(Msg(i)) ELSE NoneV,
             IF p.final THEN Job(i) ELSE NoneV) :
        p \in {q \in ReturnPaths : q.hook = h}}
    \cup {Raises(p.exc) : p \in {q \in RaisePaths : q.hook = h}}

\* tagged is the document after tag('inbox')
InboxIfTagged(tagged) ==
    Outcome(0, Py("Task", tagged), PStr("Added inbox tag to " \o Describe(tagged)), NoneV)

\* the hook reporting the tag without adding it
InboxIfReported(h, test) ==
    IF ~h.ret /\ test THEN InboxIfTagged(h.task)
    ELSE Outcome(0, Py("Task", h.task), NoneV, NoneV)

\* h is the outcome of has_tag('inbox')
InboxIfChecked(h, test) ==
    IF ~h.ret /\ test THEN InboxIfTagged(Tag(h.task, PStr("inbox")).task)
    ELSE Outcome(0, Py("Task", h.task), NoneV, NoneV)

\* the hook inbox_if_hook_gen(test) returns, called with document t; test is
\* what the caller's predicate answers
InboxIf(t, test) == InboxIfChecked(HasTag(t.v, PStr("inbox")), test)

\* whether a blocks entry matches one of the four task reference patterns,
\* for the entries of the model
IsTaskRef(entry) == CASE entry = "1" -> TRUE [] entry = "x" -> FALSE

\* the task the tracker holds, and what tw.from_taskwarrior may answer
OtherTask == TaskInit(("description" :> PStr("pay rent")) @@ ("uuid" :> PStr(U2))).task
TrackerAnswers == {<<>>, <<OtherTask>>}

\* the message of blocks for one blocked task
BlockedMessage(blocked, d) ==
    "Task " \o Describe(blocked) \o " blocked by " \o Describe(d)

\* d is the document after del modified_task['blocks'], u its uuid or the
\* exception looking it up raised
BlocksFound(d, found, u) ==
    IF ~u.ok THEN Raises(u.val.v)
    ELSE [Outcome(0, Py("Task", d), PStr(BlockedMessage(found[1], d)), NoneV)
            EXCEPT !.imports =
                <<[i \in 1..Len(found) |-> AddDependency(found[i], u.val).task]>>]

\* entry is the text of the blocks field
BlocksEntry(d, entry, found) ==
    IF ~IsTaskRef(entry.v)
        THEN Outcome(1, NoneV,
                     PStr("Could not parse " \o PyRepr(entry) \o " as a task to block"),
                     NoneV)
    ELSE IF found = <<>>
        THEN Outcome(1, NoneV,
                     PStr("Could not find a task matching " \o PyRepr(entry) \o " to block"),
                     NoneV)
    ELSE BlocksFound(d, found, GetTyped(d, "uuid", "JSONableUUID", SEMAPHORE))

\* g is the blocks field, None, or the exception looking it up raised
BlocksWith(t, o, found, g) ==
    IF ~g.ok THEN Raises(g.val.v)
    ELSE IF g.val = NoneV THEN Outcome(0, t, NoneV, NoneV)
    ELSE IF o # NoneV
        THEN Outcome(1, NoneV,
                     PStr("Blocking tasks during modifications seems unreliable, so please block the task separately."),
                     NoneV)
    ELSE BlocksEntry(TaskDelItem(t.v, "blocks").task, g.val, found)

\* blocks(tw, t, o), where the blocks field holds one entry and the tracker
\* answers the lookup with found
Blocks(t, o, found) ==
    BlocksWith(t, o, found, GetTyped(t.v, "blocks", "str", NoneV))

\* what a hook written by the caller may yield at position i: any tuple,
\* conforming to TaskHookResult or not
UserOutcomes(i, t) ==
    {Outcome(0, t, NoneV, Job(i)),
     Outcome(0, NoneV, PStr(Msg(i)), NoneV),
     Outcome(1, t, PStr(Msg(i)), Job(i)),
     Outcome(2, NoneV, PStr(Msg(i)), NoneV),
     Outcome(1, NoneV, NoneV, NoneV),
     Raises("Exception")}

\* the hooks of hook.py, and the hooks a chain may hold
HookPyHooks == TableHooks \cup {"inbox_if", "blocks"}
HookNames == HookPyHooks \cup {"user"}

\* the outcomes of hook h called at position i with document t and, in
\* on_modify, the original document o
HookOutcomes(h, i, t, o) ==
    CASE h = "inbox_if" -> {InboxIf(t, test) : test \in BOOLEAN}
      [] h = "blocks" -> {Blocks(t, o, found) : found \in TrackerAnswers}
      [] h = "user" -> UserOutcomes(i, t)
      [] OTHER -> TableOutcomes(h, i, t)

----------------------------------------------------------------------------
(* The hook process: on_add, on_modify and _do_final_jobs (hook.py) *)

\* wait_for_pid's sleep intervals, in milliseconds
PID_SLEEP_MIN_INTERVAL == 1
PID_SLEEP_MAX_INTERVAL == 500

\* the documents read from standard input
BuyMilk == FromJson(("description" :> PStr("buy milk")))
BuyMilkBlocking(entry) ==
    FromJson(("description" :> PStr("buy milk")) @@ ("uuid" :> PStr(U1))
             @@ ("blocks" :> PStr(entry)))
Inputs ==
    {[mode |-> "add", task |-> BuyMilk, orig |-> NoneV],
     [mode |-> "add", task |-> BuyMilkBlocking("1"), orig |-> NoneV],
     [mode |-> "add", task |-> BuyMilkBlocking("x"), orig |-> NoneV],
     [mode |-> "modify", task |-> BuyMilk, orig |-> BuyMilk],
     [mode |-> "modify", task |-> BuyMilkBlocking("1"), orig |-> BuyMilk],
     [mode |-> "modify", task |-> FromJson(EmptyDict), orig |-> BuyMilk]}

\* the child process before the fork
NoChild ==
    /\ cpc = "none" /\ cstdout = FALSE /\ parent_pid = "none" /\ interval = 0
    /\ ran = <<>> /\ crc = -1

\* on_add / on_modify have read their documents and enter the loop over a
\* chain of nhooks hooks
Init ==
    /\ self = EmptyDict /\ exc = "none" /\ ret = NoneV
    /\ new = NoneV /\ shared = {} /\ generate_uuid = FALSE /\ generated = <<>>
    /\ \E inp \in Inputs : mode = inp.mode /\ task = inp.task /\ orig_task = inp.orig
    /\ nhooks \in 0..MaxHooks
    /\ idx = 0 /\ args = <<>> /\ results = <<>>
    /\ feedback_messages = <<>> /\ final_jobs = <<>>
    /\ pc = "loop" /\ rc = -1 /\ buf = <<>> /\ out = <<>> /\ imported = <<>>
    /\ NoChild

\* on_modify's special case: the modified document is empty
EmptyCase == mode = "modify" /\ idx = 0 /\ ~Truthy(task)

\* the test on a hook's result that ends the chain
FailedLenient(o) == o.task = NoneV
Failed(o) == o.task = NoneV \/ o.rc # 0

\* the status sys.exit(rc) ends the process with
ExitStatusOne(status) == 1
ExitStatus(status) == status

\* the process ends: the interpreter flushes standard output on its way out
Exit(status, lines) ==
    /\ out' = out \o buf \o lines
    /\ buf' = <<>>
    /\ rc' = status
    /\ pc' = "exited"

\* one iteration of the loop over the hooks: hook h is called with the
\* current document; a failing result is printed and ends the process, a
\* malformed one trips an assertion, an exception ends the process with
\* status 1, and a successful result is accumulated
CallHook(h) ==
    /\ pc = "loop" /\ idx < nhooks /\ ~EmptyCase
    /\ \E o \in HookOutcomes(h, idx + 1, task, IF mode = "add" THEN NoneV ELSE orig_task) :
        /\ idx' = idx + 1
        /\ args' = Append(args, task)
        /\ imported' = imported \o o.imports
        /\ IF o.raised # "none"
           THEN /\ Exit(1, <<>>)
                /\ UNCHANGED <<task, results, feedback_messages, final_jobs>>
           ELSE /\ results' = Append(results, o)
                /\ task' = o.task
                /\ IF Failed(o)
                   THEN /\ IF o.rc = 0 \/ o.feedback = NoneV
                           THEN Exit(1, <<>>)
                           ELSE Exit(ExitStatus(o.rc), <<PyStr(o.feedback)>>)
                        /\ UNCHANGED <<feedback_messages, final_jobs>>
                   ELSE /\ feedback_messages' =
                              IF o.feedback # NoneV
                              THEN Append(feedback_messages, o.feedback.v)
                              ELSE feedback_messages
                        /\ final_jobs' =
                              IF o.final # NoneV THEN Append(final_jobs, o.final)
                              ELSE final_jobs
                        /\ UNCHANGED <<pc, rc, buf, out>>
    /\ UNCHANGED <<taskVars, mode, nhooks, orig_task, childVars>>

\* on_modify with an empty modified document printing that document
EmptyModifiedEchoed ==
    /\ pc = "loop" /\ EmptyCase
    /\ Exit(0, <<JsonDumps(task)>>)
    /\ UNCHANGED <<taskVars, mode, nhooks, idx, task, orig_task, args, results,
                   feedback_messages, final_jobs, imported, childVars>>

\* on_modify with an empty modified document prints the original one
EmptyModified ==
    /\ pc = "loop" /\ EmptyCase
    /\ Exit(0, <<JsonDumps(orig_task)>>)
    /\ UNCHANGED <<taskVars, mode, nhooks, idx, task, orig_task, args, results,
                   feedback_messages, final_jobs, imported, childVars>>

\* the line print('; '.join(feedback_messages)) writes
FeedbackLineComma(msgs) == JoinStr(", ", msgs)
FeedbackLine(msgs) == JoinStr("; ", msgs)

\* after the loop: the document and the feedback are printed
PrintOutput ==
    /\ pc = "loop" /\ idx = nhooks /\ ~EmptyCase
    /\ buf' = buf \o <<JsonDumps(task)>>
                  \o (IF feedback_messages # <<>>
                      THEN <<FeedbackLine(feedback_messages)>> ELSE <<>>)
    /\ pc' = "final"
    /\ UNCHANGED <<taskVars, mode, nhooks, idx, task, orig_task, args, results,
                   feedback_messages, final_jobs, rc, out, imported, childVars>>

\* _do_final_jobs up to the fork: without jobs the process exits, with jobs
\* it flushes standard output and forks the child
DoFinalJobs ==
    /\ pc = "final"
    /\ IF final_jobs = <<>>
       THEN Exit(0, <<>>) /\ UNCHANGED childVars
       ELSE /\ out' = out \o buf
            /\ buf' = <<>>
            /\ pc' = "forked"
            /\ cpc' = "close"
            /\ cstdout' = TRUE
            /\ UNCHANGED <<rc, parent_pid, interval, ran, crc>>
    /\ UNCHANGED <<taskVars, mode, nhooks, idx, task, orig_task, args, results,
                   feedback_messages, final_jobs, imported>>

\* the original process after the fork: sys.exit(0)
ParentExit ==
    /\ pc = "forked"
    /\ Exit(0, <<>>)
    /\ UNCHANGED <<taskVars, mode, nhooks, idx, task, orig_task, args, results,
                   feedback_messages, final_jobs, imported, childVars>>

\* the tracker, having read standard output to its end, waits for the
\* original process, whose process id is then free
TrackerReaps ==
    /\ pc = "exited" /\ ~cstdout
    /\ pc' = "reaped"
    /\ UNCHANGED <<taskVars, mode, nhooks, idx, task, orig_task, args, results,
                   feedback_messages, final_jobs, rc, buf, out, imported, childVars>>

----------------------------------------------------------------------------
(* The forked child: the rest of _do_final_jobs, and wait_for_pid *)

\* os.getppid() in the child: once the original process has exited, the
\* child has been handed to the reaper process (init or a subreaper)
GetPpid == IF pc = "forked" THEN "original" ELSE "reaper"

\* pid_exists(pid): os.kill(pid, 0) finds the reaper always, and the original
\* process until the tracker has waited for it
PidGone(pid) == FALSE
PidExists(pid) == IF pid = "reaper" THEN TRUE ELSE pc # "reaped"

\* the job the loop `for job in jobs` takes after k jobs
NextJobReversed(jobs, k) == jobs[Len(jobs) - k]
NextJob(jobs, k) == jobs[k + 1]

Min(a, b) == IF a < b THEN a ELSE b

\* os.close(sys.stdout.fileno()), whether or not it raises OSError
ChildCloseStdout ==
    /\ cpc = "close"
    /\ cstdout' = FALSE
    /\ cpc' = "getppid"
    /\ UNCHANGED <<taskVars, procVars, parent_pid, interval, ran, crc>>

\* parent_pid = os.getppid(), and the entry of wait_for_pid
ChildGetPpid ==
    /\ cpc = "getppid"
    /\ parent_pid' = GetPpid
    /\ interval' = PID_SLEEP_MIN_INTERVAL
    /\ cpc' = "check"
    /\ UNCHANGED <<taskVars, procVars, cstdout, ran, crc>>

\* the loop test of wait_for_pid
ChildCheckPid ==
    /\ cpc = "check"
    /\ cpc' = IF PidExists(parent_pid) THEN "sleep" ELSE "jobs"
    /\ UNCHANGED <<taskVars, procVars, cstdout, parent_pid, interval, ran, crc>>

\* the loop body of wait_for_pid: sleep, then double the interval up to the cap
ChildSleep ==
    /\ cpc = "sleep"
    /\ interval' = Min(interval * 2, PID_SLEEP_MAX_INTERVAL)
    /\ cpc' = "check"
    /\ UNCHANGED <<taskVars, procVars, cstdout, parent_pid, ran, crc>>

\* job() returns
ChildRunJob ==
    /\ cpc = "jobs" /\ Len(ran) < Len(final_jobs)
    /\ ran' = Append(ran, NextJob(final_jobs, Len(ran)))
    /\ UNCHANGED <<taskVars, procVars, cpc, cstdout, parent_pid, interval, crc>>

\* job() raises and the loop goes on to the next job
ChildJobSwallowed ==
    /\ cpc = "jobs" /\ Len(ran) < Len(final_jobs)
    /\ ran' = Append(ran, NextJob(final_jobs, Len(ran)))
    /\ UNCHANGED <<taskVars, procVars, cpc, cstdout, parent_pid, interval, crc>>

\* job() raises: the exception ends the child
ChildJobRaises ==
    /\ cpc = "jobs" /\ Len(ran) < Len(final_jobs)
    /\ ran' = Append(ran, NextJob(final_jobs, Len(ran)))
    /\ cpc' = "exited"
    /\ crc' = 1
    /\ UNCHANGED <<taskVars, procVars, cstdout, parent_pid, interval>>

\* sys.exit(0) after the last job
ChildExit ==
    /\ cpc = "jobs" /\ Len(ran) = Len(final_jobs)
    /\ cpc' = "exited"
    /\ crc' = 0
    /\ UNCHANGED <<taskVars, procVars, cstdout, parent_pid, interval, ran>>

ChildStep ==
    \/ ChildCloseStdout
    \/ ChildGetPpid
    \/ ChildCheckPid
    \/ ChildSleep
    \/ ChildRunJob
    \/ ChildExit

ProcStep ==
    \/ \E h \in HookNames : CallHook(h)
    \/ EmptyModified
    \/ PrintOutput
    \/ DoFinalJobs
    \/ ParentExit
    \/ TrackerReaps

Next == ProcStep \/ ChildStep \/ ChildJobRaises

Spec == Init /\ [][Next]_vars

\* the steps of the original process once the loop over the hooks is over
AfterLoop ==
    \/ PrintOutput
    \/ DoFinalJobs
    \/ ParentExit
    \/ TrackerReaps

\* the processes where every deferred action returns, scheduled fairly: once
\* the hooks have run, a process that can take a step eventually takes one
FairNext == ProcStep \/ ChildStep

FairSpec ==
    /\ Init
    /\ [][FairNext]_vars
    /\ WF_vars(AfterLoop)
    /\ WF_vars(ChildStep)

----------------------------------------------------------------------------
(* Claims about the hook process *)

\* the result the most recent hook returned
LastResult == results[Len(results)]

\* the original process has ended
Ended == pc \in {"exited", "reaped"}

\* C1: once a hook of the chain has returned a nonzero status, no later hook
\* of the chain is ever invoked, whatever the position of the failing hook
\* and the length of the chain.
C1_NoHookAfterFailure ==
    [][(results # <<>> /\ LastResult.rc # 0)
          => (idx' = idx /\ args' = args /\ results' = results)]_vars

\* a hook has returned a nonzero status while hooks of the chain remained
C1_Witness ==
    /\ results # <<>> /\ LastResult.rc # 0
    /\ idx < nhooks /\ idx > 1
    /\ pc = "reaped"

\* C2: when a hook returns a nonzero status s with a feedback message m,
\* standard output holds exactly the one line m (no document line, no
\* feedback of earlier hooks) and the process exits with status s.
C2_FailureOutput ==
    (results # <<>> /\ LastResult.rc # 0 /\ LastResult.feedback # NoneV)
        => /\ Ended
           /\ rc = LastResult.rc
           /\ buf = <<>>
           /\ out = <<LastResult.feedback.v>>

\* the third hook failed with status 2 after two hooks that gave feedback
C2_Witness ==
    /\ Len(results) = 3 /\ LastResult.rc = 2 /\ LastResult.feedback # NoneV
    /\ results[1].feedback # NoneV /\ results[2].feedback # NoneV
    /\ rc = 2

\* every hook of the chain has returned status 0 with a document, and the
\* output has been written
AllSucceeded ==
    /\ nhooks > 0 /\ Len(results) = nhooks
    /\ \A i \in 1..nhooks : results[i].rc = 0 /\ results[i].task # NoneV
    /\ pc \in {"forked", "exited", "reaped"}

\* the feedback messages the hooks returned, in hook order
ReturnedFeedback ==
    LET given == SelectSeq(results, LAMBDA r : r.feedback # NoneV) IN
    [i \in 1..Len(given) |-> given[i].feedback.v]

\* C3: when every hook of the chain returns status 0 (with a document, as
\* TaskHookResult has it), each hook received the document the previous hook
\* returned, and the output is exactly one line holding the serialization of
\* the document the last hook returned, followed, if and only if at least one
\* hook returned a feedback message, by exactly one line joining all feedback
\* messages in hook order with "; ".
C3_SuccessOutput ==
    AllSucceeded
        => /\ \A i \in 2..nhooks : args[i] = results[i - 1].task
           /\ buf = <<>>
           /\ out = <<JsonDumps(LastResult.task)>>
                      \o (IF ReturnedFeedback = <<>> THEN <<>>
                          ELSE <<JoinStr("; ", ReturnedFeedback)>>)

\* three hooks succeeded, the first changed the document, and two of them
\* gave feedback
C3_Witness ==
    /\ AllSucceeded /\ nhooks = 3
    /\ results[1].task # args[1]
    /\ Len(ReturnedFeedback) = 2

\* the deferred actions the hooks returned, in hook order
ReturnedJobs ==
    LET given == SelectSeq(results, LAMBDA r : r.final # NoneV) IN
    [i \in 1..Len(given) |-> given[i].final]

\* C4: the deferred actions queued by the hooks of one invocation are invoked
\* in the order in which their hooks ran, each at most once.
C4_JobsInHookOrder ==
    /\ Len(ran) <= Len(ReturnedJobs)
    /\ \A i \in 1..Len(ran) : ran[i] = ReturnedJobs[i]
    /\ \A i, j \in 1..Len(ran) : i # j => ran[i] # ran[j]

\* the actions of two hooks have both been invoked
C4_Witness == Len(ran) >= 2 /\ cpc = "exited" /\ crc = 0

\* C5: no deferred action is invoked before the document line and the
\* feedback line have been flushed to standard output, the process running
\* the actions has closed its standard output, and the original process has
\* exited.
C5_JobsAfterHandoff ==
    ran # <<>>
        => /\ buf = <<>> /\ out # <<>> /\ out[1] = JsonDumps(task)
              /\ (feedback_messages # <<>> => Len(out) = 2)
           /\ ~cstdout
           /\ Ended

\* a deferred action has been invoked after output with a feedback line
C5_Witness == ran # <<>> /\ Len(out) = 2

\* C6: when at least one deferred action is queued and every action returns,
\* the forked child eventually invokes every queued action and then exits
\* with status 0, under every interleaving of the original process's exit
\* with the child's steps.
C6_ChildRunsAllJobs ==
    (cpc = "close") ~> (cpc = "exited" /\ crc = 0 /\ ran = final_jobs)

\* C7: if a hook of the chain fails, the tracker has received neither an
\* output document nor a task import issued by a hook that ran earlier in the
\* chain.
C7_NothingPersisted ==
    (Ended /\ results # <<>> /\ Failed(LastResult))
        => /\ imported = <<>>
           /\ \A i \in 1..Len(out), j \in 1..Len(args) : out[i] # JsonDumps(args[j])

\* a result conforming to TaskHookResult
WellFormed(r) ==
    /\ (r.task # NoneV) <=> (r.rc = 0)
    /\ r.rc # 0 => (r.feedback # NoneV /\ r.final = NoneV)

\* C8: every result a hook of hook.py returns, on every return path, carries
\* a document if and only if its status is 0, and with a nonzero status it
\* carries a feedback message and no deferred action.
C8_ResultsWellFormed ==
    [][\A h \in HookPyHooks :
          (CallHook(h) /\ results' # results) => WellFormed(results'[Len(results')])]_vars

\* the blocks hook has refused a modification
C8_Witness ==
    /\ results # <<>> /\ LastResult.rc = 1 /\ LastResult.task = NoneV
    /\ LastResult.feedback =
           PStr("Blocking tasks during modifications seems unreliable, so please block the task separately.")

----------------------------------------------------------------------------
(* Task.duplicate and the identifier placeholder (types.py) *)

\* the arguments of duplicate
Flags == [reset_as_new : BOOLEAN, reset_id : BOOLEAN, reset_uuid : BOOLEAN,
          reset_deps : BOOLEAN]

DuplicateRefusesUuidOnly(f) == f.reset_as_new /\ ~f.reset_uuid

\* the test that makes duplicate raise ValueError
DuplicateRefuses(f) ==
    f.reset_as_new /\ (~f.reset_uuid \/ ~f.reset_deps \/ ~f.reset_id)

KeysToResetKeepingUuid(f) ==
    <<"dependencies", "end", "entry", "id", "modified", "reviewed", "start",
      "status", "urgency">>

\* keys_to_reset
KeysToReset(f) ==
    IF f.reset_as_new
    THEN <<"dependencies", "end", "entry", "id", "modified", "reviewed", "start",
           "status", "urgency", "uuid">>
    ELSE (IF f.reset_id THEN <<"id">> ELSE <<>>)
         \o (IF f.reset_uuid THEN <<"uuid">> ELSE <<>>)
         \o (IF f.reset_deps THEN <<"dependencies">> ELSE <<>>)

RECURSIVE DelKeys(_, _)
\* the loop deleting the keys to reset, a missing key being passed over
DelKeys(d, keys) ==
    IF keys = <<>> THEN d
    ELSE DelKeys(IF Head(keys) \in DOMAIN d THEN DictDrop(d, Head(keys)) ELSE d,
                 Tail(keys))

\* the keys of d whose value is an object that methods change in place
MutableKeys(d) ==
    {k \in DOMAIN d : \/ IsInstance(d[k], "list")
                      \/ d[k].cls = "JSONableAny" /\ IsInstance(d[k].v, "list")}

ShallowCopy(d) == [task |-> d, exc |-> "none", shared |-> MutableKeys(d)]

\* copy.deepcopy(self): every value is copied, so the copy shares no object
\* with d; a JSONableUUIDPlaceholder refuses to give its state
DeepCopy(d) ==
    IF \E k \in DOMAIN d : d[k].cls = "JSONableUUIDPlaceholder"
    THEN [task |-> d, exc |-> "NotImplementedError", shared |-> {}]
    ELSE [task |-> d, exc |-> "none", shared |-> {}]

\* nd is the copy after the keys to reset are deleted
DuplicateDone(c, nd, gen) ==
    [task |-> MaybePopulateUuid(nd, gen), exc |-> "none",
     shared |-> c.shared \cap DOMAIN nd]

\* c is the outcome of the deep copy
DuplicateOf(c, keys, gen) ==
    IF c.exc # "none" THEN [task |-> NoneV, exc |-> c.exc, shared |-> {}]
    ELSE DuplicateDone(c, DelKeys(c.task, keys), gen)

\* Task.duplicate(reset_as_new, reset_id, reset_uuid, reset_deps) on payload
\* d: the task returned, the exception raised, and the keys under which the
\* task returned holds the very object d holds
Duplicate(d, f, gen) ==
    IF DuplicateRefuses(f) THEN [task |-> NoneV, exc |-> "ValueError", shared |-> {}]
    ELSE DuplicateOf(DeepCopy(d), KeysToReset(f), gen)

----------------------------------------------------------------------------
(* A task and its duplicate: the specification DupSpec *)

\* the mappings the source task is constructed from
DupMaps ==
    {("description" :> PStr("buy milk")) @@ ("uuid" :> PStr(U1)) @@ ("id" :> PInt(1))
        @@ ("status" :> PStr("pending")) @@ ("entry" :> PStr("20240101T000000Z"))
        @@ ("end" :> PStr("20240102T000000Z"))
        @@ ("urgency" :> Py("float", 15)) @@ ("tags" :> PList(<<PStr("a")>>))
        @@ ("depends" :> PList(<<PStr(U2)>>)) @@ ("annotations" :> PList(<<>>))
        @@ ("dependencies" :> PStr(U2)) @@ ("foo" :> PList(<<PInt(5)>>)),
     ("description" :> PStr("buy milk")) @@ ("tags" :> PList(<<PStr("a")>>))
        @@ ("depends" :> PList(<<>>))}

\* the values the operations of DupSpec set, and the keys they delete
DupSetVals(key) ==
    CASE key = "tags" -> {PList(<<PStr("a")>>)}
DupSetKeys == {"tags"}
DupDelKeys == {"tags"}

\* no list of a task of DupSpec is longer than the model allows
DupBounded(d) ==
    \A k \in DOMAIN d : IsInstance(d[k], "list") => Len(d[k].v) <= DupMaxLen

DupSpecInit ==
    /\ generate_uuid \in BOOLEAN
    /\ \E m \in DupMaps : self = TaskNew(m, generate_uuid).task
    /\ exc = "none" /\ ret = NoneV /\ new = NoneV /\ shared = {}
    /\ generated = <<>>
    /\ IdleProc

\* new = self.duplicate(...): r is the outcome
DuplicateApply(r) ==
    /\ exc' = r.exc
    /\ ret' = r.task
    /\ new' = IF r.exc = "none" THEN r.task ELSE new
    /\ shared' = IF r.exc = "none" THEN r.shared ELSE shared
    /\ UNCHANGED <<self, generate_uuid, generated, procVars, childVars>>

DoDuplicate(f) == DuplicateApply(Duplicate(self, f, generate_uuid))

\* the task an operation is called on, and the other one
Target(w) == IF w = "self" THEN self ELSE new
Other(w) == IF w = "self" THEN new ELSE self

\* the other task after the object under key was changed in place
OtherAfter(w, key, r, inplace) ==
    IF inplace /\ key \in shared THEN DictPut(Other(w), key, r.task[key])
    ELSE Other(w)

\* an operation on the field key of task w whose outcome is r; inplace
\* tells whether it changed the object the field holds, rather than binding
\* the field to another object
DupApply(w, key, r, inplace) ==
    /\ Target(w) # NoneV
    /\ ret' = NoneV
    /\ DupBounded(r.task)
    /\ exc' = r.exc
    /\ self' = IF w = "self" THEN r.task ELSE OtherAfter(w, key, r, inplace)
    /\ new' = IF w = "new" THEN r.task ELSE OtherAfter(w, key, r, inplace)
    /\ shared' = IF inplace \/ r.exc # "none" THEN shared ELSE shared \ {key}
    /\ UNCHANGED <<generate_uuid, generated, procVars, childVars>>

DupTag(w, tags) ==
    /\ Target(w) # NoneV
    /\ DupApply(w, "tags", Tag(Target(w), tags), "tags" \in DOMAIN Target(w))

DupUntag(w, tags) ==
    /\ Target(w) # NoneV
    /\ DupApply(w, "tags", Untag(Target(w), tags), "tags" \in DOMAIN Target(w))

DupAddDependency(w, uuids) ==
    /\ Target(w) # NoneV
    /\ DupApply(w, "depends", AddDependency(Target(w), uuids),
                "depends" \in DOMAIN Target(w))

DupAddAnnotation(w, a) ==
    /\ Target(w) # NoneV
    /\ DupApply(w, "annotations", AddAnnotation(Target(w), a),
                "annotations" \in DOMAIN Target(w))

DupSet(w, key, x) ==
    /\ Target(w) # NoneV
    /\ DupApply(w, key, TaskSetItem(Target(w), key, x), FALSE)

DupDelete(w, key) ==
    /\ Target(w) # NoneV
    /\ DupApply(w, key, TaskDelItem(Target(w), key), FALSE)

\* the operations on one of the two tasks
DupOp(w) ==
    \/ DupTag(w, PStr("a"))
    \/ DupUntag(w, PStr("a"))
    \/ DupAddDependency(w, Py("UUID", U2))
    \/ DupAddAnnotation(w, PStr("a"))
    \/ \E key \in DupSetKeys : \E x \in DupSetVals(key) : DupSet(w, key, x)
    \/ \E key \in DupDelKeys : DupDelete(w, key)

DupNext ==
    \/ \E f \in Flags : DoDuplicate(f)
    \/ DupOp("self")
    \/ DupOp("new")

DupSpec == DupSpecInit /\ [][DupNext]_vars

----------------------------------------------------------------------------
(* Claims about Task.duplicate *)

\* C11: duplicate called with reset_as_new=True and any of reset_uuid,
\* reset_deps or reset_id False raises ValueError, returns no task and leaves
\* the source task (and an earlier duplicate) unchanged.
C11_DuplicateRefused ==
    [][\A f \in Flags :
          (f.reset_as_new /\ (~f.reset_uuid \/ ~f.reset_deps \/ ~f.reset_id)
              /\ DoDuplicate(f))
          => (exc' = "ValueError" /\ ret' = NoneV /\ self' = self /\ new' = new)]_vars

\* a refused duplicate after a successful one
C11_Witness == exc = "ValueError" /\ ret = NoneV /\ new # NoneV

\* the keys duplicate resets for a new task
ResetSubset == {"dependencies", "end", "entry", "id", "modified", "reviewed",
                "start", "status", "urgency", "uuid"}

\* C12: a task returned by duplicate with reset_as_new=True does not carry
\* the source's identifier (its 'uuid' is absent or a placeholder that holds
\* no identifier yet), has none of the fields end, entry, id, modified,
\* reviewed, start, status and urgency, and has every field of the source
\* outside the reset subset with the source's value.
C12_ResetAsNew ==
    [][\A f \in Flags :
          (f.reset_as_new /\ DoDuplicate(f) /\ exc' = "none")
          => /\ "uuid" \in DOMAIN new'
                    => new'["uuid"] = JSONableUUIDPlaceholder("_gen_uuid")
             /\ {"end", "entry", "id", "modified", "reviewed", "start", "status",
                 "urgency"} \cap DOMAIN new' = {}
             /\ \A k \in DOMAIN self \ ResetSubset :
                    k \in DOMAIN new' /\ new'[k] = self[k]]_vars

\* the duplicate just returned for a source with an identifier, an id, a
\* status, an entry date and an urgency: it has a placeholder and the tags
C12_Witness ==
    /\ exc = "none" /\ new # NoneV /\ ret = new
    /\ {"uuid", "id", "status", "entry", "urgency", "tags"} \subseteq DOMAIN self
    /\ "status" \notin DOMAIN new
    /\ "uuid" \in DOMAIN new /\ "tags" \in DOMAIN new

\* C13: a task returned by duplicate with reset_as_new=True or with
\* reset_deps=True has no 'depends' field, the field add_dependency writes.
C13_NoDependsInDuplicate ==
    [][\A f \in Flags :
          ((f.reset_as_new \/ f.reset_deps) /\ DoDuplicate(f) /\ exc' = "none")
          => "depends" \notin DOMAIN new']_vars

\* the other task after the step
OtherNext(w) == IF w = "self" THEN new' ELSE self'

\* the step changes the task other than w; a task it leaves as it was keeps
\* its serialized form, ToJsonStr being a function of the task
OtherChanges(w) ==
    /\ Other(w) # NoneV
    /\ OtherNext(w) # Other(w)

\* C14: duplicate leaves the source task unchanged, and a later tag, untag,
\* add_dependency, add_annotation, set or delete on one of the two tasks
\* leaves the other, and so its serialized form, unchanged: a step that
\* changes the source is no duplicate, and a step that changes one task is
\* no operation on the other.
C14_DuplicateIndependent ==
    [][/\ self' # self => ~(\E f \in Flags : DoDuplicate(f))
       /\ \A w \in {"self", "new"} : OtherChanges(w) => ~DupOp(w)]_vars

\* a task and its duplicate whose tags have come to differ
C14_Witness ==
    /\ new # NoneV /\ "tags" \in DOMAIN self /\ "tags" \in DOMAIN new
    /\ self["tags"] # new["tags"]

----------------------------------------------------------------------------
(* A task whose identifier is generated: the specification UuidSpec *)

\* the mappings the task is constructed from
UuidMaps ==
    {("description" :> PStr("buy milk")),
     ("description" :> PStr("buy milk")) @@ ("foo" :> PInt(5)),
     ("description" :> PStr("buy milk")) @@ ("uuid" :> PStr(U1)),
     ("description" :> PStr("buy milk")) @@ ("uuid" :> PStr("a"))}

UuidSpecInit ==
    /\ generate_uuid \in BOOLEAN
    /\ \E m \in UuidMaps : /\ TaskNew(m, generate_uuid).exc = "none"
                          /\ self = TaskNew(m, generate_uuid).task
    /\ exc = "none" /\ ret = NoneV /\ new = NoneV /\ shared = {}
    /\ generated = <<>>
    /\ IdleProc

\* r is the outcome of Task(m): on success the new instance, for which no
\* identifier has been generated, replaces the one under test
UuidConstructed(r) ==
    /\ self' = IF r.exc = "none" THEN r.task ELSE self
    /\ generated' = IF r.exc = "none" THEN <<>> ELSE generated
    /\ exc' = r.exc
    /\ ret' = NoneV
    /\ UNCHANGED <<new, shared, generate_uuid, procVars, childVars>>

UuidConstruct(m) == UuidConstructed(TaskNew(m, generate_uuid))

\* a read of task['uuid'], u being what the factory returns if it is called:
\* a placeholder is populated by the read
DoReadUuid(kind, u) ==
    /\ "uuid" \in DOMAIN self
    /\ self' = PopulatedTask(self, u)
    /\ generated' = IF PopulatedTask(self, u) # self THEN Append(generated, u.v)
                    ELSE generated
    /\ ret' = ReadUuid(PopulatedTask(self, u)["uuid"], kind)
    /\ exc' = "none"
    /\ UNCHANGED <<new, shared, generate_uuid, procVars, childVars>>

UuidNext ==
    \/ \E m \in UuidMaps : UuidConstruct(m)
    \/ \E kind \in ReadKinds, u \in Uuid4 : DoReadUuid(kind, u)
    \/ \E x \in SetVals("uuid") : DoSet("uuid", x)
    \/ \E key \in {"uuid", "foo"} : DoDelete(key)
    \/ \E tags \in {PStr("a")} : DoTag(tags)

UuidSpec == UuidSpecInit /\ [][UuidNext]_vars

\* the task holds a placeholder
HasPlaceholder ==
    "uuid" \in DOMAIN self /\ self["uuid"].cls = "JSONableUUIDPlaceholder"

\* C15: each Task instance receives at most one generated identifier: none
\* is generated at construction (a placeholder holds no identifier until it
\* is read), and once one has been generated every later str, repr,
\* comparison and serialization of the task's identifier gives that same
\* identifier and runs the generator no more.
C15_OneGeneratedIdentifier ==
    /\ [](/\ Len(generated) <= 1
          /\ HasPlaceholder =>
                /\ generated = <<>> <=> self["uuid"].v.factory # "None"
                /\ generated # <<>> => self["uuid"].v.int = generated[1])
    /\ [][\A kind \in ReadKinds, u \in Uuid4 :
             (HasPlaceholder /\ generated # <<>> /\ DoReadUuid(kind, u))
             => /\ generated' = generated
                /\ self' = self
                /\ ret' = ReadUuid(Py("JSONableUUID", generated[1]), kind)]_vars

\* the generated identifier read as a comparison that holds
C15_Witness ==
    /\ HasPlaceholder /\ generated = <<U1>>
    /\ ret = Py("bool", TRUE)

----------------------------------------------------------------------------
(* Claims about Task.tag and Task.untag *)

\* the tags the task holds, none when it has no field 'tags'
TagsOf(d) == IF "tags" \in DOMAIN d THEN d["tags"].v ELSE <<>>

\* how many times the task holds the tag t
TagCount(d, t) ==
    Cardinality({i \in 1..Len(TagsOf(d)) : PyEq(TagsOf(d)[i], PStr(t))})

TagNames == {"a", "5"}

\* C16: tag is idempotent: tagging a task with a tag it already holds
\* leaves the task as it is, so the tags list never holds that tag twice
\* afterwards.
C16_TagIdempotent ==
    [][\A t \in TagNames :
          (TagCount(self, t) = 1 /\ DoTag(PStr(t)))
          => self' = self /\ TagCount(self', t) = 1]_vars

\* C17: untag deletes the field 'tags' when it removes the last remaining
\* tag, so tag(t); untag(t) on a task without the field restores its absence.
C17_UntagDeletesField ==
    [][\A t \in TagNames :
          (TagsOf(self) = <<Py("JSONableString", t)>> /\ DoUntag(PStr(t)))
          => "tags" \notin DOMAIN self']_vars

\* C18: untag(t) raises NoSuchTagError exactly when t is not among the
\* task's tags at that moment (a task without the field 'tags' included);
\* otherwise it removes one occurrence of t, so a second untag(t) on a task
\* that held t once fails.  untag of an empty collection on a task without
\* the field raises nothing and leaves the task as it is.
C18_UntagRaises ==
    [][/\ \A t \in TagNames :
             DoUntag(PStr(t))
             => /\ exc' = "NoSuchTagError" <=> TagCount(self, t) = 0
                /\ exc' = "none" <=> TagCount(self, t) > 0
                /\ TagCount(self, t) > 0 => TagCount(self', t) = TagCount(self, t) - 1
                /\ TagCount(self, t) = 0 => self' = self
       /\ ("tags" \notin DOMAIN self /\ DoUntag(PList(<<>>)))
             => exc' = "none" /\ self' = self]_vars

\* the second untag of a tag the task held once has failed
C18_Witness ==
    exc = "NoSuchTagError" /\ "tags" \in DOMAIN self /\ TagsOf(self) = <<>>

----------------------------------------------------------------------------
(* Task.check_log_problems: the specification ProblemsSpec *)

RECURSIVE StrFind(_, _, _)
\* the first index from i on at which sep occurs in s, 0 if there is none
StrFind(s, sep, i) ==
    IF i + Len(sep) - 1 > Len(s) THEN 0
    ELSE IF SubSeq(s, i, i + Len(sep) - 1) = sep THEN i
    ELSE StrFind(s, sep, i + 1)

RECURSIVE StrSplit(_, _)
\* i is the index of the first separator in s, 0 if there is none
StrSplitAt(s, sep, i) ==
    IF i = 0 THEN <<s>>
    ELSE <<SubSeq(s, 1, i - 1)>> \o StrSplit(SubSeq(s, i + Len(sep), Len(s)), sep)

\* s.split(sep): the empty string splits into one empty part
StrSplit(s, sep) == StrSplitAt(s, sep, StrFind(s, sep, 1))

\* the elements of a sequence
Elems(seq) == {seq[i] : i \in 1..Len(seq)}

\* list.remove(x) on a list of str that holds x
RemoveFirst(seq, x) ==
    PlainRemoveAt(seq, CHOOSE j \in 1..Len(seq) :
                           seq[j] = x /\ \A k \in 1..(j - 1) : seq[k] # x).seq

\* g is the stored problems string, None, or the exception looking it up raised
GetProblemsOf(g) ==
    IF ~g.ok THEN g
    ELSE IF g.val = NoneV THEN Ok(<<>>)
    ELSE Ok(StrSplit(g.val.v, ", "))

\* Task._get_problems()
GetProblems(d) == GetProblemsOf(GetTyped(d, "problems", "str", NoneV))

\* TaskProblem(test, description), test being what the predicate answers for
\* the task at this call
TaskProblem(test, description) ==
    Py("TaskProblem", [test |-> test, description |-> description])

\* the outcome of check_log_problems: the task afterwards, the exception
\* raised and the members of the ProblemTestResult returned
CR(t, e, flags) == [task |-> t, exc |-> e, ret |-> flags]

\* r is the outcome of tag or untag, after which flag is set
Flagged(r, flag) == CR(r.task, r.exc, IF r.exc = "none" THEN {flag} ELSE {})

\* s is the outcome of storing the joined descriptions after one was added
AddedSet(s, has_problem_tag) ==
    IF s.exc # "none" THEN CR(s.task, s.exc, {})
    ELSE IF ~has_problem_tag THEN Flagged(Tag(s.task, PStr("problems")), "ADDED")
    ELSE CR(s.task, "none", {"ADDED"})

\* s is the outcome of storing the joined descriptions after one was removed
RemovedSet(s, current_problems, has_problem_tag) ==
    IF s.exc # "none" THEN CR(s.task, s.exc, {})
    ELSE IF has_problem_tag /\ Len(current_problems) = 0
        THEN Flagged(Untag(s.task, PStr("problems")), "REMOVED")
    ELSE CR(s.task, "none", {"REMOVED"})

\* self['problems'] = ', '.join(current_problems)
StoreProblems(d, current_problems) ==
    TaskSetItem(d, "problems", PStr(JoinStr(", ", current_problems)))

\* g is the outcome of _get_problems, h that of has_tag('problems')
CheckOneWith(d, problem, g, h) ==
    IF ~g.ok THEN CR(d, g.val.v, {})
    ELSE IF h.exc # "none" THEN CR(h.task, h.exc, {})
    ELSE IF problem.test /\ problem.description \notin Elems(g.val)
        THEN AddedSet(StoreProblems(h.task, Append(g.val, problem.description)), h.ret)
    ELSE IF ~problem.test /\ problem.description \in Elems(g.val)
        THEN RemovedSet(StoreProblems(h.task, RemoveFirst(g.val, problem.description)),
                        RemoveFirst(g.val, problem.description), h.ret)
    ELSE CR(h.task, "none", {})

\* the body of the loop of check_log_problems for one problem
CheckOne(d, problem) ==
    CheckOneWith(d, problem, GetProblems(d), HasTag(d, PStr("problems")))

RECURSIVE CheckLogLoop(_, _, _)
\* r is the outcome of the loop's body for the first problem
CheckLogNext(r, rest, result) ==
    IF r.exc # "none" THEN r
    ELSE CheckLogLoop(r.task, rest, result \cup r.ret)

\* the loop of check_log_problems over the problems left
CheckLogLoop(d, problems, result) ==
    IF problems = <<>> THEN CR(d, "none", result)
    ELSE CheckLogNext(CheckOne(d, Head(problems).v), Tail(problems), result)

\* Task.check_log_problems(problems)
CheckLogProblems(d, problems) ==
    CheckLogLoop(d, AsList(problems, "TaskProblem").v, {})

\* the descriptions of the problems the hooks log
Descriptions == {"no context tags", "no project"}

\* the arguments of check_log_problems: one problem, or both
ProblemArgs ==
    {TaskProblem(t, desc) : t \in BOOLEAN, desc \in Descriptions}
    \cup {PList(<<TaskProblem(t1, "no context tags"), TaskProblem(t2, "no project")>>) :
            t1 \in BOOLEAN, t2 \in BOOLEAN}

\* tasks with neither a field 'problems' nor a tag 'problems'
ProblemMaps ==
    {EmptyDict, ("tags" :> PList(<<PStr("a")>>)), ("tags" :> PList(<<>>)),
     ("description" :> PStr("buy milk")), ("project" :> PStr("home")),
     ("description" :> PStr("buy milk")) @@ ("tags" :> PList(<<PStr("a")>>))}

ProblemsSpecInit ==
    /\ \E m \in ProblemMaps : TaskInit(m).exc = "none" /\ self = TaskInit(m).task
    /\ exc = "none" /\ ret = NoneV
    /\ new = NoneV /\ shared = {} /\ generate_uuid = FALSE /\ generated = <<>>
    /\ IdleProc

\* r is the outcome of check_log_problems
CheckLogApply(r) ==
    /\ self' = r.task
    /\ exc' = r.exc
    /\ ret' = IF r.exc = "none" THEN Py("ProblemTestResult", r.ret) ELSE NoneV
    /\ UNCHANGED <<new, shared, generate_uuid, generated, procVars, childVars>>

DoCheckLogProblems(problems) == CheckLogApply(CheckLogProblems(self, problems))

ProblemsNext == \E problems \in ProblemArgs : DoCheckLogProblems(problems)

ProblemsSpec == ProblemsSpecInit /\ [][ProblemsNext]_vars

\* the field 'problems' records at least one problem description
RecordsProblem(d) ==
    /\ "problems" \in DOMAIN d
    /\ Elems(StrSplit(d["problems"].v, ", ")) \cap Descriptions # {}

\* C19: starting from a task with neither a field 'problems' nor a tag
\* 'problems', after any sequence of check_log_problems calls the task has
\* the tag 'problems' if and only if its field 'problems' records at least
\* one problem description.
C19_TagIffProblems == TagCount(self, "problems") > 0 <=> RecordsProblem(self)

----------------------------------------------------------------------------
(* JSONableDuration.__str__: the specification DurationSpec *)

\* the largest number of whole days of the durations examined
MaxDays == 1

\* JSONableDuration(days, seconds=..., minutes=..., hours=...): a timedelta,
\* held as its total number of seconds
JSONableDurationOf(days, hours, minutes, seconds) ==
    Py("JSONableDuration", ((days * 24 + hours) * 60 + minutes) * 60 + seconds)

\* abs(n)
PyAbs(n) == IF n < 0 THEN 0 - n ELSE n

\* the parts appended for a component, its sign left out
ComponentUnsigned(negative, num, name) ==
    IF num # 0 THEN <<ToString(num), name>> ELSE <<>>

\* the parts appended for the component num, whose letter is name
Component(negative, num, name) ==
    IF num # 0
    THEN (IF negative THEN <<"-">> ELSE <<>>) \o <<ToString(num), name>>
    ELSE <<>>

\* the parts appended for the time of day
TimeParts(negative, hours, minutes, seconds) ==
    IF hours # 0 \/ minutes # 0 \/ seconds # 0
    THEN <<"T">> \o Component(negative, hours, "H")
                 \o Component(negative, minutes, "M")
                 \o Component(negative, seconds, "S")
    ELSE <<>>

\* parts, once the components are known
PartsOf(negative, days, hours, minutes, seconds) ==
    <<"P">> \o Component(negative, days, "D")
            \o TimeParts(negative, hours, minutes, seconds)

\* minutes, seconds = divmod(seconds, 60)
PartsAfterMinutes(negative, days, hours, seconds) ==
    PartsOf(negative, days, hours, seconds \div 60, seconds % 60)

\* hours, seconds = divmod(seconds, 60 * 60)
PartsAfterHours(negative, days, seconds) ==
    PartsAfterMinutes(negative, days, seconds \div (60 * 60), seconds % (60 * 60))

\* days, seconds = divmod(seconds, 60 * 60 * 24)
PartsAfterDays(negative, seconds) ==
    PartsAfterHours(negative, seconds \div (60 * 60 * 24), seconds % (60 * 60 * 24))

\* JSONableDuration.__str__, which _json_pre_dump returns
DurationStr(x) ==
    IF x.v = 0 THEN "PT0S"
    ELSE JoinStr("", PartsAfterDays(x.v < 0, PyAbs(x.v)))

\* str.isdigit for one character
IsDigit(c) == c \in {"0", "1", "2", "3", "4", "5", "6", "7", "8", "9"}

\* int(c) for a digit c
DigitVal(c) ==
    CASE c = "0" -> 0 [] c = "1" -> 1 [] c = "2" -> 2 [] c = "3" -> 3 [] c = "4" -> 4
      [] c = "5" -> 5 [] c = "6" -> 6 [] c = "7" -> 7 [] c = "8" -> 8 [] c = "9" -> 9

RECURSIVE StrToInt(_)
\* int(s) for a string of digits
StrToInt(s) ==
    IF Len(s) = 0 THEN 0
    ELSE 10 * StrToInt(SubSeq(s, 1, Len(s) - 1)) + DigitVal(SubSeq(s, Len(s), Len(s)))

RECURSIVE DigitsEnd(_, _)
\* the index after the run of digits \d+ would match from index i on
DigitsEnd(s, i) ==
    IF i <= Len(s) /\ IsDigit(SubSeq(s, i, i)) THEN DigitsEnd(s, i + 1) ELSE i

\* s.isnumeric()
IsNumeric(s) == Len(s) > 0 /\ DigitsEnd(s, 1) = Len(s) + 1

\* j is where the digits from i on end: the group (?:(\d+)X)? matches them
\* when the letter follows, and otherwise matches nothing
GroupAt(s, i, j, letter) ==
    IF j > i /\ j <= Len(s) /\ SubSeq(s, j, j) = letter
    THEN [v |-> StrToInt(SubSeq(s, i, j - 1)), next |-> j + 1]
    ELSE [v |-> 0, next |-> i]

\* an optional group of _norm_re tried at index i: the number it holds (0
\* when it matches nothing, as the constructor reads it) and where it ends
Group(s, i, letter) == GroupAt(s, i, DigitsEnd(s, i), letter)

\* no match of _norm_re
NoMatch == [ok |-> FALSE, d |-> 0, h |-> 0, m |-> 0, s |-> 0]

\* the pattern's $, after the groups gd, gh, gm and gs
NormEnd(s, gd, gh, gm, gs) ==
    IF gs.next = Len(s) + 1
    THEN [ok |-> TRUE, d |-> gd.v, h |-> gh.v, m |-> gm.v, s |-> gs.v]
    ELSE NoMatch

NormSeconds(s, gd, gh, gm) == NormEnd(s, gd, gh, gm, Group(s, gm.next, "S"))

NormMinutes(s, gd, gh) == NormSeconds(s, gd, gh, Group(s, gh.next, "M"))

\* (?:T(?:(?P<h>\d+)H)?(?:(?P<m>\d+)M)?(?:(?P<s>\d+)S)?)?$ after the group gd
NormTime(s, gd) ==
    IF gd.next = Len(s) + 1 THEN [ok |-> TRUE, d |-> gd.v, h |-> 0, m |-> 0, s |-> 0]
    ELSE IF SubSeq(s, gd.next, gd.next) = "T"
        THEN NormMinutes(s, gd, Group(s, gd.next + 1, "H"))
    ELSE NoMatch

\* JSONableDuration._norm_re.match(s)
NormMatch(s) ==
    IF Len(s) > 0 /\ SubSeq(s, 1, 1) = "P" THEN NormTime(s, Group(s, 2, "D"))
    ELSE NoMatch

\* match is the outcome of _norm_re.match(s)
JSONableDurationMatched(s, match) ==
    IF match.ok THEN Ok(JSONableDurationOf(match.d, match.h, match.m, match.s))
    ELSE IF IsNumeric(s) THEN Ok(JSONableDurationOf(0, 0, 0, StrToInt(s)))
    ELSE Raise("ValueError")

\* JSONableDuration(s) for a str s
JSONableDurationFromStr(s) == JSONableDurationMatched(s, NormMatch(s))

\* the strings durations are constructed from
DurationTexts ==
    {"P1M", "P30D", "PT1M", "P", "PT", "P1DT1H", "PT90000S", "3600", "-3600",
     "PT-1H", "P1DT", "P01D", "PT61S", "", "T1H", "P1H", "P1DT1S1M"}

\* the durations examined: every mix of zero and nonzero components, of
\* either sign
Durations ==
    {JSONableDurationOf(sign * d, sign * h, sign * m, sign * s) :
        sign \in {1, -1}, d \in 0..MaxDays,
        h \in {0, 1, 23}, m \in {0, 1, 59}, s \in {0, 1, 59}}

\* JSONableDuration(): the zero duration
DurationSpecInit ==
    /\ self = JSONableDurationOf(0, 0, 0, 0)
    /\ exc = "none" /\ ret = NoneV
    /\ new = NoneV /\ shared = {} /\ generate_uuid = FALSE /\ generated = <<>>
    /\ IdleProc

\* another duration is constructed and takes the place of the one under test
DoDurationNew(x) ==
    /\ self' = x
    /\ ret' = NoneV
    /\ new' = NoneV
    /\ exc' = "none"
    /\ UNCHANGED <<shared, generate_uuid, generated, procVars, childVars>>

\* str(self)
DoDurationStr ==
    /\ ret' = PStr(DurationStr(self))
    /\ exc' = "none"
    /\ UNCHANGED <<self, new, shared, generate_uuid, generated, procVars, childVars>>

\* r is the outcome of JSONableDuration(s): on success the new duration
\* takes the place of the one under test
DurationConstructed(r) ==
    /\ self' = IF r.ok THEN r.val ELSE self
    /\ exc' = IF r.ok THEN "none" ELSE r.val.v
    /\ ret' = NoneV
    /\ new' = NoneV
    /\ UNCHANGED <<shared, generate_uuid, generated, procVars, childVars>>

\* JSONableDuration(s)
DoDurationFromStr(s) == DurationConstructed(JSONableDurationFromStr(s))

\* r is the outcome of JSONableDuration(str(self)): the duration parsed is
\* kept next to the one it was serialized from
DurationReparsed(r) ==
    /\ ret' = PStr(DurationStr(self))
    /\ new' = IF r.ok THEN r.val ELSE NoneV
    /\ exc' = IF r.ok THEN "none" ELSE r.val.v
    /\ UNCHANGED <<self, shared, generate_uuid, generated, procVars, childVars>>

\* JSONableDuration.from_json_val(self._json_pre_dump())
DoDurationRoundTrip == DurationReparsed(JSONableDurationFromStr(DurationStr(self)))

DurationNext ==
    \/ \E x \in Durations : DoDurationNew(x)
    \/ DoDurationStr
    \/ \E s \in DurationTexts : DoDurationFromStr(s)
    \/ DoDurationRoundTrip

DurationSpec == DurationSpecInit /\ [][DurationNext]_vars

\* what is emitted for a component: nothing when it is zero, otherwise the
\* number and its letter, after '-' in a negative duration
Emitted(n, num, letter) ==
    IF num = 0 THEN ""
    ELSE (IF n < 0 THEN "-" ELSE "") \o ToString(num) \o letter

\* the serialization of a duration of n seconds, a being |n|
SerializedAs(n, a) ==
    IF n = 0 THEN "PT0S"
    ELSE "P" \o Emitted(n, a \div 86400, "D")
             \o (IF a % 86400 = 0 THEN ""
                 ELSE "T" \o Emitted(n, (a \div 3600) % 24, "H")
                          \o Emitted(n, (a \div 60) % 60, "M")
                          \o Emitted(n, a % 60, "S"))

\* C20: the serialization of a duration of N whole seconds is 'PT0S' when
\* N = 0; otherwise it is 'P', the day count followed by 'D' if nonzero,
\* then, if any of hours, minutes, seconds is nonzero, 'T' followed by each
\* nonzero component with its letter H, M, S, the components decomposing |N|;
\* zero components are omitted (90000 gives 'P1DT1H') and when N < 0 every
\* emitted component is prefixed with '-'.
C20_DurationSerialization ==
    ret # NoneV =>
        /\ ret = PStr(SerializedAs(self.v, PyAbs(self.v)))
        /\ self.v = 0 => ret = PStr("PT0S")
        /\ self.v = 90000 => ret = PStr("P1DT1H")
        /\ self.v = -3600 => ret = PStr("PT-1H")

\* a negative duration with every component nonzero has been serialized
C20_Witness == self.v = -90061 /\ ret = PStr("P-1DT-1H-1M-1S")

\* C21: for every duration of a whole number of seconds, negative durations
\* included, the string it serializes to is accepted by the wrapper's own
\* parser, and parsing it yields a duration equal to the original.
C21_DurationRoundTrip ==
    [][DoDurationRoundTrip => exc' = "none" /\ new' = self]_vars

\* C22: parsing the duration string "P1M" succeeds and yields the fixed
\* 30-day duration, which serializes as "P30D".
C22_MonthIsThirtyDays ==
    [][DoDurationFromStr("P1M")
       => /\ exc' = "none"
          /\ self' = JSONableDurationOf(30, 0, 0, 0)
          /\ DurationStr(self') = "P30D"]_vars

----------------------------------------------------------------------------
(* Numbers in a task and in its duplicate: the specification NumberSpec *)

\* the JSON numbers a field is fed: the integers 3 and 0, the floats 3.0
\* and 3.5
NumberVals == {PInt(3), PInt(0), Py("float", 30), Py("float", 35)}

\* the mappings json.loads gives for the lines the tasks are read from
NumberMaps ==
    {("description" :> PStr("buy milk"))}
    \cup {("description" :> PStr("buy milk")) @@ ("imask" :> x) : x \in NumberVals}
    \cup {("description" :> PStr("buy milk")) @@ ("uuid" :> PStr(U1)) @@ ("last" :> x) :
            x \in NumberVals}

NumberSpecInit ==
    /\ \E m \in NumberMaps : TaskInit(m).exc = "none" /\ self = TaskInit(m).task
    /\ exc = "none" /\ ret = NoneV
    /\ new = NoneV /\ shared = {} /\ generate_uuid = FALSE /\ generated = <<>>
    /\ IdleProc

\* text is what to_json_str returned
Serialized(text) ==
    /\ ret' = PStr(text)
    /\ exc' = "none"
    /\ UNCHANGED <<self, new, shared, generate_uuid, generated, procVars, childVars>>

\* task.to_json_str(), of the task or of its duplicate
DoToJsonStr(w) ==
    /\ Target(w) # NoneV
    /\ Serialized(JsonDumps(Py("Task", Target(w))))

\* task[key].to_json_str()
DoFieldToJsonStr(w, key) ==
    /\ Target(w) # NoneV
    /\ key \in DOMAIN Target(w)
    /\ Serialized(JsonDumps(Target(w)[key]))

NumberNext ==
    \/ \E key \in NumberKeys, x \in NumberVals : DoSet(key, x)
    \/ \E f \in Flags : DoDuplicate(f)
    \/ \E w \in {"self", "new"} : DoToJsonStr(w)
    \/ \E w \in {"self", "new"}, key \in NumberKeys : DoFieldToJsonStr(w, key)

NumberSpec == NumberSpecInit /\ [][NumberNext]_vars

\* the JSON number x was fed as: the integer, or the float
FedAs(x) ==
    IF x.v._int # NoneV THEN ToString(x.v._int.v)
    ELSE ToString(x.v.f \div 10) \o "." \o ToString(x.v.f % 10)

\* the member "key": number is part of the object text
HasMember(text, key, number) ==
    \/ StrFind(text, "\"" \o key \o "\": " \o number \o ",", 1) # 0
    \/ StrFind(text, "\"" \o key \o "\": " \o number \o "}", 1) # 0

\* C23: a JSONableNumber field fed a JSON integer n serializes back as the
\* JSON integer n and never as a float, and fed a JSON float serializes back
\* as that float, in the task and in the copy of the field inside a
\* duplicated task.
C23_NumberFidelity ==
    [][\A w \in {"self", "new"}, key \in NumberKeys :
          /\ DoFieldToJsonStr(w, key) => ret' = PStr(FedAs(Target(w)[key]))
          /\ (Target(w) # NoneV /\ key \in DOMAIN Target(w) /\ DoToJsonStr(w))
                => HasMember(ret'.v, key, FedAs(Target(w)[key]))]_vars

----------------------------------------------------------------------------
(* Claims about the hooks in the hook process *)

\* on_add has ended after a chain of one hook, which was the inbox hook with
\* its test answering true for a document without the tag 'inbox'
InboxOnlyRun ==
    /\ mode = "add" /\ nhooks = 1 /\ pc \in {"exited", "reaped"}
    /\ Len(results) = 1
    /\ TagCount(args[1].v, "inbox") = 0
    /\ results[1] = InboxIf(args[1], TRUE)

\* document d with 'inbox' appended to its tags
WithInbox(d) ==
    [k \in DOMAIN d \cup {"tags"} |->
        IF k = "tags"
        THEN Py("JSONableStringList", TagsOf(d) \o <<Py("JSONableString", "inbox")>>)
        ELSE d[k]]

\* C24: on-add with a chain holding only the inbox hook, for an input
\* without the tag 'inbox' that satisfies the hook's test: the output is the
\* input document with 'inbox' appended to its tags (the field created if
\* absent, every other field unchanged) and the feedback line 'Added inbox
\* tag to ' followed by the task's describe() text; {"description": "buy
\* milk"} gives {"description": "buy milk", "tags": ["inbox"]}.
C24_InboxEndToEnd ==
    InboxOnlyRun =>
        /\ rc = 0
        /\ out = <<JsonDumps(Py("Task", WithInbox(args[1].v))),
                   "Added inbox tag to " \o Describe(args[1].v)>>
        /\ args[1] = BuyMilk =>
              out = <<"{\"description\": \"buy milk\", \"tags\": [\"inbox\"]}",
                      "Added inbox tag to 'buy milk'">>

\* the end-to-end example has run
C24_Witness ==
    /\ InboxOnlyRun /\ args[1] = BuyMilk
    /\ out[1] = "{\"description\": \"buy milk\", \"tags\": [\"inbox\"]}"

\* C25: a deferred action that raises while the child runs the queue ends
\* the child: no action queued after it is invoked, the failing action is
\* not retried, and the child does not exit with status 0.
C25_JobErrorEndsChild ==
    /\ [][ChildJobRaises
          => cpc' = "exited" /\ crc' # 0 /\ Len(ran') = Len(ran) + 1]_vars
    /\ [](cpc = "exited" => ran = SubSeq(final_jobs, 1, Len(ran)))
    /\ [][cpc = "exited" => UNCHANGED <<cpc, crc, ran>>]_vars

\* the child was ended by the first of several deferred actions
C25_Witness ==
    cpc = "exited" /\ crc = 1 /\ Len(ran) = 1 /\ Len(final_jobs) > 1

\* on_modify was given an empty modified document
EmptyInput == mode = "modify" /\ idx = 0 /\ ~Truthy(task)

\* C26: on-modify with an empty modified task prints the serialized original
\* task as its only output line and exits 0, without invoking any hook and
\* without running or queuing any deferred action.
C26_EmptyModifiedTask ==
    /\ []((EmptyInput /\ pc # "loop")
            => /\ pc \in {"exited", "reaped"} /\ rc = 0
               /\ out = <<JsonDumps(orig_task)>> /\ buf = <<>>
               /\ args = <<>> /\ results = <<>> /\ imported = <<>>
               /\ final_jobs = <<>> /\ ran = <<>> /\ cpc = "none")
    /\ [][(EmptyInput /\ pc = "loop")
            => /\ idx' = 0 /\ pc' = "exited" /\ rc' = 0
               /\ out' = <<JsonDumps(orig_task)>>]_vars

\* the process given an empty modified document and a chain of hooks has
\* printed the original document and exited
C26_Witness ==
    /\ EmptyInput /\ nhooks > 0 /\ pc = "exited" /\ rc = 0
    /\ out = <<"{\"description\": \"buy milk\"}">>

\* a hook of the chain has failed: it raised, or it returned no document or
\* a status other than 0
AHookFailed ==
    \/ Len(results) < idx
    \/ \E i \in 1..Len(results) : results[i].task = NoneV \/ results[i].rc # 0

\* C27: when a hook fails, the deferred actions queued by the hooks that
\* succeeded before it are never invoked and no child process is forked.
C27_FailureDropsJobs ==
    AHookFailed => /\ pc \in {"exited", "reaped"} /\ rc # 0
                   /\ cpc = "none" /\ ran = <<>>

\* the chain failed after a hook had queued a deferred action
C27_Witness ==
    AHookFailed /\ final_jobs # <<>> /\ pc = "reaped" /\ cpc = "none"

----------------------------------------------------------------------------
(* Claims about the queries and the failures of Task.untag *)

\* C28: Task.has_tag(t) and Task.get_tags() are pure queries: they leave the
\* task's serialized form unchanged, and a task without a field 'tags' still
\* has none after the call.
C28_QueriesArePure ==
    [][\A tag \in {PStr("a")} :
          DoHasTag(tag)
          => /\ "tags" \in DOMAIN self' <=> "tags" \in DOMAIN self
             /\ JsonDumps(Py("Task", self')) = JsonDumps(Py("Task", self))]_vars

\* C29: when untag called with several tags raises NoSuchTagError because
\* one of them is absent, the task's tags are the same as before the call.
C29_FailedUntagKeepsTags ==
    [][\A tags \in TagArgs :
          (DoUntag(tags) /\ exc' = "NoSuchTagError") => TagsOf(self') = TagsOf(self)]_vars

----------------------------------------------------------------------------
(* The hook random_delays: the specification RandomDelaysSpec *)

\* the local variable due before anything is assigned to it
Unbound == Py("unbound", "due")

\* d + datetime.timedelta(seconds=k): the instant k seconds after d
DateAfter(d, k) ==
    Py("datetime", IF k = 0 THEN d.v ELSE d.v \o "+" \o ToString(k) \o "s")

\* where the hook stands: whether it has returned or raised, with what, the
\* document as it has been changed so far, and the local variable due
RD(done, o, d, due) == [done |-> done, out |-> o, task |-> d, due |-> due]

\* the first block once due is looked up; k is what random.randrange draws
DueLooked(d, due_rand, due, k) ==
    IF due = NoneV
        THEN RD(TRUE, Outcome(1, NoneV, PStr("Task has dueRandomDelay but no due"), NoneV),
                d, due)
    ELSE IF due_rand.v <= 0 THEN RD(TRUE, Raises("ValueError"), d, due)
    ELSE RD(FALSE, NoneV, TaskSetItem(d, "due", DateAfter(due, k)).task, due)

\* d is the document after del modified_task['dueRandomDelay']
DueAfterDel(d, due_rand, k) ==
    DueLooked(d, due_rand, GetTyped(d, "due", "datetime", NoneV).val, k)

\* if due_rand is not None: ...
DueBlock(d, due_rand, k) ==
    IF due_rand = NoneV THEN RD(FALSE, NoneV, d, Unbound)
    ELSE DueAfterDel(TaskDelItem(d, "dueRandomDelay").task, due_rand, k)

\* the second block once wait is looked up: the test reads due
WaitLooked(d, due, due_rand, wait, k) ==
    IF due = Unbound THEN RD(TRUE, Raises("UnboundLocalError"), d, due)
    ELSE IF due = NoneV
        THEN RD(TRUE, Outcome(1, NoneV, PStr("Task has waitRandomDelay but no wait"), NoneV),
                d, due)
    ELSE IF wait = NoneV THEN RD(TRUE, Raises("TypeError"), d, due)
    ELSE IF due_rand.v <= 0 THEN RD(TRUE, Raises("ValueError"), d, due)
    ELSE RD(TRUE, Outcome(0, Py("Task", TaskSetItem(d, "wait", DateAfter(wait, k)).task),
                          NoneV, NoneV),
            TaskSetItem(d, "wait", DateAfter(wait, k)).task, due)

\* d is the document after del modified_task['waitRandomDelay']
WaitAfterDel(d, due, due_rand, k) ==
    WaitLooked(d, due, due_rand, GetTyped(d, "wait", "datetime", NoneV).val, k)

\* if wait_rand is not None: ... and the final return; r is where the hook
\* stands after the first block
WaitBlock(r, due_rand, wait_rand, k) ==
    IF r.done THEN r
    ELSE IF wait_rand = NoneV
        THEN RD(TRUE, Outcome(0, Py("Task", r.task), NoneV, NoneV), r.task, r.due)
    ELSE WaitAfterDel(TaskDelItem(r.task, "waitRandomDelay").task, r.due, due_rand, k)

\* due_rand and wait_rand are the two delays, None when the field is absent
RandomDelaysWith(d, due_rand, wait_rand, kd, kw) ==
    WaitBlock(DueBlock(d, due_rand, kd), due_rand, wait_rand, kw)

\* random_delays(tw, modified_task) on payload d; kd and kw are what the two
\* calls of random.randrange draw
RandomDelays(d, kd, kw) ==
    RandomDelaysWith(d, GetTyped(d, "dueRandomDelay", "timedelta", NoneV).val,
                     GetTyped(d, "waitRandomDelay", "timedelta", NoneV).val, kd, kw)

\* what random.randrange(int(due_rand.total_seconds())) may draw for d
Draws(d) ==
    IF "dueRandomDelay" \in DOMAIN d /\ d["dueRandomDelay"].v > 0
    THEN 0..(d["dueRandomDelay"].v - 1)
    ELSE {0}

\* the fields of the documents handed to the hook, and the values the
\* tracker's lines give them
DelayFields ==
    [dueRandomDelay : {NoneV, Py("JSONableDuration", 2), Py("JSONableDuration", 3)},
     due : {NoneV, Py("JSONableDate", "2024-01-01T00:00:00Z"),
            Py("JSONableDate", "2024-01-02T00:00:00Z")},
     waitRandomDelay : {NoneV, Py("JSONableDuration", 2), Py("JSONableDuration", 3)},
     wait : {NoneV, Py("JSONableDate", "2024-01-01T00:00:00Z"),
             Py("JSONableDate", "2024-01-02T00:00:00Z")}]

\* the Task holding the fields of f that are not None
DelayTask(f) ==
    [k \in {"description"} \cup {c \in DOMAIN f : f[c] # NoneV} |->
        IF k = "description" THEN Py("JSONableString", "buy milk") ELSE f[k]]

RandomDelaysSpecInit ==
    /\ self = DelayTask([dueRandomDelay |-> NoneV, due |-> NoneV,
                         waitRandomDelay |-> NoneV, wait |-> NoneV])
    /\ exc = "none" /\ ret = NoneV
    /\ new = NoneV /\ shared = {} /\ generate_uuid = FALSE /\ generated = <<>>
    /\ IdleProc

\* r is where the hook stands at its end: the document is changed in place
RandomDelaysApply(r) ==
    /\ self' = r.task
    /\ exc' = r.out.raised
    /\ ret' = IF r.out.raised = "none" THEN r.out ELSE NoneV
    /\ UNCHANGED <<new, shared, generate_uuid, generated, procVars, childVars>>

DoRandomDelays(kd, kw) == RandomDelaysApply(RandomDelays(self, kd, kw))

\* another document is read
DoReadDelayTask(f) ==
    /\ self' = DelayTask(f)
    /\ exc' = "none" /\ ret' = NoneV
    /\ UNCHANGED <<new, shared, generate_uuid, generated, procVars, childVars>>

RandomDelaysNext ==
    \/ \E kd \in Draws(self), kw \in Draws(self) : DoRandomDelays(kd, kw)
    \/ \E f \in DelayFields : DoReadDelayTask(f)

RandomDelaysSpec == RandomDelaysSpecInit /\ [][RandomDelaysNext]_vars

\* C30: random_delays, given a task that has waitRandomDelay but no wait
\* field, returns the failure result (1, no document, 'Task has
\* waitRandomDelay but no wait', no deferred action), whether or not the task
\* also has dueRandomDelay and a due field; it never returns success and
\* never raises for such a task.
C30_WaitDelayWithoutWait ==
    [][\A kd \in Draws(self), kw \in Draws(self) :
          (/\ "waitRandomDelay" \in DOMAIN self /\ "wait" \notin DOMAIN self
           /\ ("dueRandomDelay" \in DOMAIN self <=> "due" \in DOMAIN self)
           /\ DoRandomDelays(kd, kw))
          => /\ exc' = "none"
             /\ ret' = Outcome(1, NoneV, PStr("Task has waitRandomDelay but no wait"),
                               NoneV)]_vars

====
